---- MODULE Spec2Model ----
(***************************************************************************)
(* A model of the focal-point node: the ledger (LedgerDisk), the imbalance *)
(* cache, the consideration queue, the consideration graph with its        *)
(* indexer, and the Processor that validates views and runs fork choice.   *)
(*                                                                         *)
(* Hashes are injective: a consideration id is the consideration with its  *)
(* signature cleared, a view id is a number handed out with the view.      *)
(* An Ed25519 signature is the pair (signer, message) it was made from.    *)
(* Every view of the model sits below the first retarget height, so each   *)
(* view adds the same view work to the point work of its parent.           *)
(* Public keys are plain keys: their base64 text holds no path separator,  *)
(* so the indexer adds exactly the edge By -> For for a consideration.     *)
(***************************************************************************)
EXTENDS Integers, Sequences, FiniteSets, TLC

VARIABLES
    db,        \* LedgerDisk.db: the ledger's key-value image, one field per table
    views,     \* ViewStorageDisk: view id -> view
    whens,     \* ViewStorageDisk: view id -> timestamp of the last Store
    graph,     \* Graph: node index and weighted edges
    cnQueue,   \* ConsiderationQueueMemory.cnQueue, front first
    qCache,    \* ConsiderationQueueMemory.imbalanceCache.cache
    pc,        \* position of the Processor goroutine
    req,       \* the view request the Processor is handling
    result,    \* outcome of the last finished request
    snap,      \* ledger image when the last view request was taken
    tipChan,   \* the Indexer's TipChange channel (capacity 1)
    idxEvent,  \* TipChange the Indexer has received and not yet indexed
    subscribed,\* the Indexer's channel is in Processor.tipChangeChannels
    now,       \* wall clock, seconds
    nNew,      \* number of view ids handed out so far
    step,      \* what the last ledger call did (for the ledger claims)
    sent       \* TipChange events the current view request has sent, in order

vars == <<db, views, whens, graph, cnQueue, qCache, pc, req, result, snap,
          tipChan, idxEvent, subscribed, now, nNew, step, sent>>

----------------------------------------------------------------------------
(* Program constants *)

VIEWPOINT_MATURITY == 100
NUM_VIEWS_FOR_MEDIAN_TMESTAMP == 11
MAX_FUTURE_SECONDS == 7200
VIEWS_UNTIL_NEW_SERIES == 1008
MAX_MEMO_LENGTH == 150
MAX_NUMBER == 2147483647   \* 1<<53 - 1 in the source; the largest integer TLC holds stands in for it
VIEWS_UNTIL_CONSIDERATIONS_PER_VIEW_DOUBLING == 105000
MAX_CONSIDERATION_QUEUE_LENGTH == 100000
INITIAL_MAX_CONSIDERATIONS_PER_VIEW == 10000
MAX_CONSIDERATIONS_PER_VIEW == 2147483647              \* 1<<31 - 1
MAX_CONSIDERATIONS_PER_VIEW_EXCEEDED_AT_HEIGHT == 1852032
TipChanCap == 1

(* Bounds of the model *)

MaxNewViews == 3      \* views submitted on top of the booted chain
MaxViewCns == 2       \* non-viewpoint considerations per submitted view
MaxTicks == 1         \* clock ticks after boot
MaturityRun == 201    \* views connected in the maturity run

----------------------------------------------------------------------------
(* Public keys, considerations *)

Keys == {"A", "B"}
NoKey == "nil"                       \* a nil public key (cn.By of a viewpoint)
NoSig == [signer |-> NoKey, msg |-> <<>>, len |-> 0]    \* an empty signature

\* Consideration.ID: the hash of the JSON of the consideration, signature cleared
ID(cn) == <<cn.time, cn.nonce, cn.by, cn.for, cn.memo, cn.matures, cn.expires, cn.series>>

\* Consideration.IsViewpoint
IsViewpoint(cn) == cn.by = NoKey

\* ed25519.Sign as used by Consideration.Sign: made by a key over the id
SignatureOf(key, cn) == [signer |-> key, msg |-> ID(cn), len |-> 64]

\* Consideration.Verify: ed25519.Verify(cn.By, id, cn.Signature)
Verify(cn) == cn.sig.len = 64 /\ cn.sig.signer = cn.by /\ cn.sig.msg = ID(cn)

\* Consideration.IsMature
IsMature(cn, height) == IF cn.matures = 0 THEN TRUE ELSE cn.matures >= height

\* Consideration.IsExpired
IsExpired(cn, height) == IF cn.expires = 0 THEN FALSE ELSE cn.expires < height

\* checkConsiderationSeries without the series of grace
checkConsiderationSeries_exact(cn, height) ==
    cn.series = (height \div VIEWS_UNTIL_NEW_SERIES) + 1

\* checkConsiderationSeries with two series of grace
checkConsiderationSeries_wide(cn, height) ==
    LET high == (height \div VIEWS_UNTIL_NEW_SERIES) + 1
    IN  cn.series >= high - 2 /\ cn.series <= high

\* checkConsiderationSeries
checkConsiderationSeries(cn, height) ==
    IF IsViewpoint(cn)
    THEN cn.series = (height \div VIEWS_UNTIL_NEW_SERIES) + 1
    ELSE LET high == (height \div VIEWS_UNTIL_NEW_SERIES) + 1
             low0 == high - 1
             low  == IF low0 = 0 THEN 1 ELSE low0
         IN  cn.series >= low /\ cn.series <= high

\* checkConsideration: "" when the consideration is sane, else the complaint
checkConsideration(cn) ==
    IF cn.time < 0 \/ cn.time > MAX_NUMBER THEN "bad time"
    ELSE IF cn.nonce < 0 THEN "negative nonce"
    ELSE IF IsViewpoint(cn) /\ cn.matures > 0 THEN "viewpoint matures"
    ELSE IF IsViewpoint(cn) /\ cn.expires > 0 THEN "viewpoint expires"
    ELSE IF IsViewpoint(cn) /\ cn.sig.len # 0 THEN "viewpoint signed"
    ELSE IF ~IsViewpoint(cn) /\ cn.by \notin Keys THEN "bad sender"
    ELSE IF ~IsViewpoint(cn) /\ cn.sig.len # 64 THEN "bad signature size"
    ELSE IF cn.for \notin Keys THEN "bad recipient"
    ELSE IF cn.by = cn.for THEN "to self"
    ELSE IF cn.memo > MAX_MEMO_LENGTH THEN "memo too long"
    ELSE IF cn.matures < 0 \/ cn.matures > MAX_NUMBER THEN "bad maturity"
    ELSE IF cn.expires < 0 \/ cn.expires > MAX_NUMBER THEN "bad expiration"
    ELSE IF cn.series <= 0 \/ cn.series > MAX_NUMBER THEN "bad series"
    ELSE ""

----------------------------------------------------------------------------
(* Key-value tables of the ledger and leveldb batches *)

Put(f, k, v) == (k :> v) @@ f
Del(f, k) == [x \in (DOMAIN f) \ {k} |-> f[x]]
EmptyTable == [x \in {} |-> 0]

NoTip == [set |-> FALSE, id |-> 0, height |-> 0]
EmptyDb == [tip |-> NoTip, heightIdx |-> EmptyTable, branch |-> EmptyTable,
            cnIdx |-> EmptyTable, pkIdx |-> {}, imb |-> EmptyTable]

\* leveldb.Batch.Put / Delete as records; db.Write applies them in order
BPut(t, k, v) == [t |-> t, del |-> FALSE, k |-> k, v |-> v]
BDel(t, k) == [t |-> t, del |-> TRUE, k |-> k, v |-> 0]

ApplyOp(d, o) ==
    CASE o.t = "tip"       -> [d EXCEPT !.tip = o.v]
      [] o.t = "heightIdx" -> [d EXCEPT !.heightIdx = IF o.del THEN Del(@, o.k) ELSE Put(@, o.k, o.v)]
      [] o.t = "branch"    -> [d EXCEPT !.branch = IF o.del THEN Del(@, o.k) ELSE Put(@, o.k, o.v)]
      [] o.t = "cnIdx"     -> [d EXCEPT !.cnIdx = IF o.del THEN Del(@, o.k) ELSE Put(@, o.k, o.v)]
      [] o.t = "pkIdx"     -> [d EXCEPT !.pkIdx = IF o.del THEN @ \ {o.k} ELSE @ \cup {o.k}]
      [] o.t = "imb"       -> [d EXCEPT !.imb = IF o.del THEN Del(@, o.k) ELSE Put(@, o.k, o.v)]

RECURSIVE ApplyFrom(_, _, _)
ApplyFrom(d, batch, i) ==
    IF i > Len(batch) THEN d ELSE ApplyFrom(ApplyOp(d, batch[i]), batch, i + 1)

\* leveldb.DB.Write(batch)
WriteBatch(d, batch) == ApplyFrom(d, batch, 1)

\* LedgerDisk.GetPointTip, GetViewIDForHeight, GetBranchType, GetPublicKeyImbalance
HasTip(d) == d.tip.set
HasViewAtHeight(d, h) == h \in DOMAIN d.heightIdx
GetViewIDForHeight(d, h) == d.heightIdx[h]
GetBranchType(d, id) == IF id \in DOMAIN d.branch THEN d.branch[id] ELSE "UNKNOWN"
GetPublicKeyImbalance(d, pk) == IF pk \in DOMAIN d.imb THEN d.imb[pk] ELSE 0

\* SetBranchType that puts every view it is given on the main branch
SetBranchType_main(d, id, bt) == [d EXCEPT !.branch = Put(@, id, "MAIN")]

\* LedgerDisk.SetBranchType
SetBranchType(d, id, bt) == [d EXCEPT !.branch = Put(@, id, bt)]

----------------------------------------------------------------------------
(* ImbalanceCache *)

CacheGet(cache, d, pk) == IF pk \in DOMAIN cache THEN cache[pk] ELSE GetPublicKeyImbalance(d, pk)

\* Apply that does not look at the sender's imbalance
Apply_unchecked(cache, d, cn) ==
    LET sender == CacheGet(cache, d, cn.by)
        c1 == IF IsViewpoint(cn) THEN cache ELSE Put(cache, cn.by, sender - 1)
    IN  [ok |-> TRUE, cache |-> Put(c1, cn.for, CacheGet(c1, d, cn.for) + 1)]

\* ImbalanceCache.Apply: ok is FALSE when the sender holds less than 1
Apply(cache, d, cn) ==
    LET sender == CacheGet(cache, d, cn.by)
        c1 == IF IsViewpoint(cn) THEN cache ELSE Put(cache, cn.by, sender - 1)
    IN  IF ~IsViewpoint(cn) /\ sender < 1
        THEN [ok |-> FALSE, cache |-> cache]
        ELSE [ok |-> TRUE, cache |-> Put(c1, cn.for, CacheGet(c1, d, cn.for) + 1)]

\* Undo that does not give the sender back what was sent
Undo_nocredit(cache, d, cn) ==
    LET recipient == CacheGet(cache, d, cn.for)
    IN  IF recipient < 1
        THEN [panic |-> TRUE, cache |-> cache]
        ELSE [panic |-> FALSE, cache |-> Put(cache, cn.for, recipient - 1)]

\* ImbalanceCache.Undo: panic is TRUE when the recipient holds less than 1
Undo(cache, d, cn) ==
    LET c1 == IF IsViewpoint(cn) THEN cache
              ELSE Put(cache, cn.by, CacheGet(cache, d, cn.by) + 1)
        recipient == CacheGet(c1, d, cn.for)
    IN  IF recipient < 1
        THEN [panic |-> TRUE, cache |-> c1]
        ELSE [panic |-> FALSE, cache |-> Put(c1, cn.for, recipient - 1)]

----------------------------------------------------------------------------
(* Graph *)

RootKey == "0"                        \* padTo44Characters("0")
EmptyGraph == [index |-> <<>>, edges |-> EmptyTable]

\* pubKeyToString: a nil key is the root's name
pubKeyToString(pk) == IF pk = NoKey THEN RootKey ELSE pk

InIndex(g, name) == \E i \in 1..Len(g.index) : g.index[i] = name
NodeIndex(g, name) == (CHOOSE i \in 1..Len(g.index) : g.index[i] = name) - 1
AddNode(g, name) == IF InIndex(g, name) THEN g ELSE [g EXCEPT !.index = Append(@, name)]

\* Graph.Link: nodes are numbered in order of first appearance, the weight accumulates
Link(g, src, tgt, weight) ==
    LET g2 == AddNode(AddNode(g, src), tgt)
        e  == <<src, tgt>>
        w0 == IF e \in DOMAIN g2.edges THEN g2.edges[e] ELSE 0
    IN  [g2 EXCEPT !.edges = Put(@, e, w0 + weight)]

\* a round of dfs that also follows the edges into node 0
DfsNext_root(g, seen) ==
    seen \cup {e[2] : e \in {x \in DOMAIN g.edges : x[1] \in seen}}

\* one round of Graph.dfs: the nodes entered from `seen`, edges into node 0 skipped
DfsNext(g, seen) ==
    seen \cup {e[2] : e \in {x \in DOMAIN g.edges : x[1] \in seen /\ NodeIndex(g, x[2]) # 0}}

RECURSIVE dfs(_, _)
dfs(g, seen) == IF DfsNext(g, seen) = seen THEN seen ELSE dfs(g, DfsNext(g, seen))

\* Graph.IsParentDescendant
IsParentDescendant(g, parent, descendant) ==
    IF ~InIndex(g, parent) \/ ~InIndex(g, descendant) THEN FALSE
    ELSE IF NodeIndex(g, parent) = 0 \/ NodeIndex(g, descendant) = 0 THEN FALSE
    ELSE descendant \in dfs(g, {parent})

----------------------------------------------------------------------------
(* LedgerDisk.ConnectView and DisconnectView *)

RECURSIVE SetToSeq(_)
SetToSeq(S) == IF S = {} THEN <<>>
               ELSE LET x == CHOOSE y \in S : TRUE IN <<x>> \o SetToSeq(S \ {x})

\* a flush that writes a zero imbalance instead of deleting the key
FlushOps_put(cache) ==
    LET ks == SetToSeq(DOMAIN cache)
    IN  [i \in 1..Len(ks) |-> BPut("imb", ks[i], cache[ks[i]])]

\* "update recorded imbalances": one Put or Delete per cached key
FlushOps(cache) ==
    LET ks == SetToSeq(DOMAIN cache)
    IN  [i \in 1..Len(ks) |->
            IF cache[ks[i]] = 0 THEN BDel("imb", ks[i]) ELSE BPut("imb", ks[i], cache[ks[i]])]

\* maturity one view late
Matures_late(cn, height) == IsViewpoint(cn) /\ height - VIEWPOINT_MATURITY > 0

\* "view.Header.Height-VIEWPOINT_MATURITY >= 0": with this view an old viewpoint matures
Matures(cn, height) == IsViewpoint(cn) /\ height - VIEWPOINT_MATURITY >= 0

\* the viewpoint of the MAIN view VIEWPOINT_MATURITY below: GetConsideration(oldID, 0)
OldViewpoint(d, vs, height) == vs[GetViewIDForHeight(d, height - VIEWPOINT_MATURITY)].cns[1]

\* the loop of ConnectView over view.Considerations, from index i
RECURSIVE ConnectLoop(_, _, _, _, _, _, _)
ConnectLoop(d, vs, g, view, i, cache, batch) ==
    IF i > Len(view.cns) THEN [err |-> "", cache |-> cache, batch |-> batch]
    ELSE
    LET cn == view.cns[i]
        h  == view.height
        b1 == Append(batch, BPut("cnIdx", ID(cn), <<h, i - 1>>))
        matures == Matures(cn, h)
        hasApply == ~IsViewpoint(cn) \/ matures
        cnToApply == IF IsViewpoint(cn) THEN OldViewpoint(d, vs, h) ELSE cn
        r == Apply(cache, d, cnToApply)
        b2 == IF IsViewpoint(cn) THEN b1 ELSE Append(b1, BPut("pkIdx", <<cn.by, h, i - 1>>, 1))
        b3 == Append(b2, BPut("pkIdx", <<cn.for, h, i - 1>>, 1))
    IN  IF ID(cn) \in DOMAIN d.cnIdx
            THEN [err |-> "already processed", cache |-> cache, batch |-> b1]
        ELSE IF matures /\ ~HasViewAtHeight(d, h - VIEWPOINT_MATURITY)
            THEN [err |-> "missing view", cache |-> cache, batch |-> b1]
        ELSE IF hasApply /\ ~r.ok
            THEN [err |-> "insufficient imbalance", cache |-> cache, batch |-> b1]
        ELSE IF hasApply /\ IsParentDescendant(g, pubKeyToString(cnToApply.for),
                                               pubKeyToString(cnToApply.by))
            THEN [err |-> "sender is a descendant", cache |-> r.cache, batch |-> b1]
        ELSE ConnectLoop(d, vs, g, view, i + 1, IF hasApply THEN r.cache ELSE cache, b3)

\* LedgerDisk.ConnectView up to db.Write: the error and the batch built so far
ConnectView(d, vs, g, id, view) ==
    IF HasTip(d) /\ d.tip.id # view.previous
    THEN [err |-> "previous does not match tip", batch |-> <<>>]
    ELSE LET r == ConnectLoop(d, vs, g, view, 1, EmptyTable, <<>>)
         IN  IF r.err # "" THEN [err |-> r.err, batch |-> r.batch]
             ELSE [err |-> "",
                   batch |-> r.batch \o FlushOps(r.cache) \o
                       << BPut("heightIdx", view.height, id),
                          BPut("branch", id, "MAIN"),
                          BPut("tip", 0, [set |-> TRUE, id |-> id, height |-> view.height]) >>]

\* a DisconnectView that takes the considerations back in the order of the view,
\* the viewpoint first
RECURSIVE DisconnectLoop_forward(_, _, _, _, _, _)
DisconnectLoop_forward(d, vs, view, i, cache, batch) ==
    IF i < 1 THEN [err |-> "", cache |-> cache, batch |-> batch]
    ELSE
    LET k  == Len(view.cns) - i + 1
        cn == view.cns[k]
        h  == view.height
        b1 == Append(batch, BDel("cnIdx", ID(cn)))
        matures == Matures(cn, h)
        hasUndo == ~IsViewpoint(cn) \/ matures
        cnToUndo == IF IsViewpoint(cn) THEN OldViewpoint(d, vs, h) ELSE cn
        r == Undo(cache, d, cnToUndo)
        b2 == IF IsViewpoint(cn) THEN b1 ELSE Append(b1, BDel("pkIdx", <<cn.by, h, k - 1>>))
        b3 == Append(b2, BDel("pkIdx", <<cn.for, h, k - 1>>))
    IN  IF matures /\ ~HasViewAtHeight(d, h - VIEWPOINT_MATURITY)
            THEN [err |-> "missing view", cache |-> cache, batch |-> b1]
        ELSE IF hasUndo /\ r.panic
            THEN [err |-> "panic", cache |-> r.cache, batch |-> b1]
        ELSE DisconnectLoop_forward(d, vs, view, i - 1, IF hasUndo THEN r.cache ELSE cache, b3)

\* the loop of DisconnectView, from index i down to 1
RECURSIVE DisconnectLoop(_, _, _, _, _, _)
DisconnectLoop(d, vs, view, i, cache, batch) ==
    IF i < 1 THEN [err |-> "", cache |-> cache, batch |-> batch]
    ELSE
    LET cn == view.cns[i]
        h  == view.height
        b1 == Append(batch, BDel("cnIdx", ID(cn)))
        matures == Matures(cn, h)
        hasUndo == ~IsViewpoint(cn) \/ matures
        cnToUndo == IF IsViewpoint(cn) THEN OldViewpoint(d, vs, h) ELSE cn
        r == Undo(cache, d, cnToUndo)
        b2 == IF IsViewpoint(cn) THEN b1 ELSE Append(b1, BDel("pkIdx", <<cn.by, h, i - 1>>))
        b3 == Append(b2, BDel("pkIdx", <<cn.for, h, i - 1>>))
    IN  IF matures /\ ~HasViewAtHeight(d, h - VIEWPOINT_MATURITY)
            THEN [err |-> "missing view", cache |-> cache, batch |-> b1]
        ELSE IF hasUndo /\ r.panic
            THEN [err |-> "panic", cache |-> r.cache, batch |-> b1]
        ELSE DisconnectLoop(d, vs, view, i - 1, IF hasUndo THEN r.cache ELSE cache, b3)

\* LedgerDisk.DisconnectView up to db.Write
DisconnectView(d, vs, id, view) ==
    IF ~HasTip(d) THEN [err |-> "no tip", batch |-> <<>>]
    ELSE IF d.tip.id # id THEN [err |-> "does not match tip", batch |-> <<>>]
    ELSE LET r == DisconnectLoop(d, vs, view, Len(view.cns), EmptyTable, <<>>)
         IN  IF r.err # "" THEN [err |-> r.err, batch |-> r.batch]
             ELSE [err |-> "",
                   batch |-> r.batch \o FlushOps(r.cache) \o
                       << BDel("heightIdx", view.height),
                          BPut("branch", id, "SIDE"),
                          BPut("tip", 0, [set |-> TRUE, id |-> view.previous,
                                          height |-> view.height - 1]) >>]

\* a commit that writes the batch although an error was returned
Commit_always(d, r) == WriteBatch(d, r.batch)

\* the commit at the end of ConnectView / DisconnectView: db.Write happens only
\* when no error was returned before it
Commit(d, r) == IF r.err = "" THEN WriteBatch(d, r.batch) ELSE d

----------------------------------------------------------------------------
(* View ids, point work, fork choice *)

ZeroID == <<0, 0>>                    \* ViewID{}: two bytes in the model, 32 in the source

\* the bytes read least significant first
GetBigInt_le(id) == id[1] + id[2] * 256

\* ViewID.GetBigInt: the bytes read as a big-endian number
GetBigInt(id) == id[1] * 256 + id[2]

\* ViewID.SetBigInt: the number written big-endian, left padded with zeros
SetBigInt(i) == <<i \div 256, i % 256>>

\* computeViewWork for the target every view of the model declares
ViewWork == 1

\* computePointWork
computePointWork(pointWork) == SetBigInt(GetBigInt(pointWork) + ViewWork)

\* ViewHeader.Compare: is (this) a better point than (their)
Compare(thisID, thisWork, thisWhen, theirID, theirWork, theirWhen) ==
    IF GetBigInt(thisWork) > GetBigInt(theirWork) THEN TRUE
    ELSE IF GetBigInt(thisWork) < GetBigInt(theirWork) THEN FALSE
    ELSE IF thisWhen < theirWhen THEN TRUE
    ELSE IF thisWhen > theirWhen THEN FALSE
    ELSE GetBigInt(thisID) < GetBigInt(theirID)

\* the timestamps computeMedianTimestamp gathers, walking back from header id
RECURSIVE Timestamps(_, _, _)
Timestamps(vs, id, n) ==
    IF n = 0 \/ id \notin DOMAIN vs THEN <<>>
    ELSE <<vs[id].time>> \o Timestamps(vs, vs[id].previous, n - 1)

\* the median of the timestamps of every ancestor
computeMedianTimestamp_all(vs, prevID) ==
    LET ts == SortSeq(Timestamps(vs, prevID, Cardinality(DOMAIN vs)), LAMBDA a, b : a < b)
    IN  ts[(Len(ts) \div 2) + 1]

\* computeMedianTimestamp
computeMedianTimestamp(vs, prevID) ==
    LET ts == SortSeq(Timestamps(vs, prevID, NUM_VIEWS_FOR_MEDIAN_TMESTAMP),
                      LAMBDA a, b : a < b)
    IN  ts[(Len(ts) \div 2) + 1]

\* a * r = q * d + m with 0 <= m < d, by doubling, so that no intermediate value
\* leaves the 32 bits of the model checker's integers; the code multiplies in int64
RECURSIVE MulDiv(_, _, _)
MulDiv(a, r, d) ==
    IF r = 0 THEN [q |-> 0, m |-> 0]
    ELSE LET half == MulDiv(a, r \div 2, d)
             dq == 2 * half.q + (2 * half.m) \div d
             dm == (2 * half.m) % d
         IN  IF r % 2 = 0 THEN [q |-> dq, m |-> dm]
             ELSE [q |-> dq + (a \div d) + ((dm + (a % d)) \div d), m |-> (dm + (a % d)) % d]

\* computeMaxConsiderationsPerView with the doublings counted from the boundary
\* one period later
computeMaxConsiderationsPerView_late(height) ==
    IF height >= MAX_CONSIDERATIONS_PER_VIEW_EXCEEDED_AT_HEIGHT
    THEN MAX_CONSIDERATIONS_PER_VIEW
    ELSE IF height < VIEWS_UNTIL_CONSIDERATIONS_PER_VIEW_DOUBLING
    THEN INITIAL_MAX_CONSIDERATIONS_PER_VIEW
    ELSE LET h == height - VIEWS_UNTIL_CONSIDERATIONS_PER_VIEW_DOUBLING
             factor == 2 ^ (h \div VIEWS_UNTIL_CONSIDERATIONS_PER_VIEW_DOUBLING)
         IN  INITIAL_MAX_CONSIDERATIONS_PER_VIEW * factor +
             MulDiv(INITIAL_MAX_CONSIDERATIONS_PER_VIEW * factor,
                    h % VIEWS_UNTIL_CONSIDERATIONS_PER_VIEW_DOUBLING,
                    VIEWS_UNTIL_CONSIDERATIONS_PER_VIEW_DOUBLING).q

\* computeMaxConsiderationsPerView; the height is below the cap's where doublings
\* is taken, so doublings < 64 and the code does not panic
computeMaxConsiderationsPerView(height) ==
    IF height >= MAX_CONSIDERATIONS_PER_VIEW_EXCEEDED_AT_HEIGHT
    THEN MAX_CONSIDERATIONS_PER_VIEW
    ELSE LET doublings == height \div VIEWS_UNTIL_CONSIDERATIONS_PER_VIEW_DOUBLING
             remainder == height % VIEWS_UNTIL_CONSIDERATIONS_PER_VIEW_DOUBLING
             factor == 2 ^ doublings
             interpolate == MulDiv(INITIAL_MAX_CONSIDERATIONS_PER_VIEW * factor, remainder,
                                   VIEWS_UNTIL_CONSIDERATIONS_PER_VIEW_DOUBLING).q
         IN  INITIAL_MAX_CONSIDERATIONS_PER_VIEW * factor + interpolate

\* checkView refusing the time now + MAX_FUTURE_SECONDS as well
checkView_strict(view, nowv) ==
    IF view.time >= nowv + MAX_FUTURE_SECONDS THEN "too far in the future" ELSE ""

\* checkView: "" when the view is sane.  The fields a renderer derives from the
\* view itself (proof of work, nonce, consideration count, hash list root) are
\* consistent in every view of the model.
checkView(view, nowv) ==
    IF view.time < 0 \/ view.time > MAX_NUMBER THEN "bad time"
    ELSE IF view.time > nowv + MAX_FUTURE_SECONDS THEN "too far in the future"
    ELSE IF view.height < 0 \/ view.height > MAX_NUMBER THEN "bad height"
    ELSE IF Len(view.cns) = 0 THEN "no considerations"
    ELSE IF ~IsViewpoint(view.cns[1]) THEN "first is not a viewpoint"
    ELSE IF Len(view.cns) > computeMaxConsiderationsPerView(view.height) THEN "too many"
    ELSE IF \E i \in 2..Len(view.cns) : IsViewpoint(view.cns[i]) THEN "multiple viewpoints"
    ELSE IF \E i \in 1..Len(view.cns) : checkConsideration(view.cns[i]) # ""
        THEN "bad consideration"
    ELSE IF Cardinality({ID(view.cns[i]) : i \in 1..Len(view.cns)}) # Len(view.cns)
        THEN "duplicate consideration"
    ELSE ""

----------------------------------------------------------------------------
(* ConsiderationQueueMemory *)

InQueue(q, id) == \E i \in 1..Len(q) : ID(q[i]) = id
RemoveID(q, id) == SelectSeq(q, LAMBDA c : ID(c) # id)
Range(sq) == {sq[i] : i \in 1..Len(sq)}

\* ExistsSigned that looks at the id only
ExistsSigned_anysig(q, id, signature) == \E i \in 1..Len(q) : ID(q[i]) = id

\* ConsiderationQueueMemory.ExistsSigned
ExistsSigned(q, id, signature) ==
    \E i \in 1..Len(q) : ID(q[i]) = id /\ q[i].sig = signature

\* Add that does not look the id up in the queue first
Add_again(q, cache, d, g, cn) ==
    LET r == Apply(cache, d, cn)
    IN  IF ~r.ok
            THEN [added |-> FALSE, err |-> "no imbalance", q |-> q, cache |-> cache]
        ELSE IF IsParentDescendant(g, pubKeyToString(cn.for), pubKeyToString(cn.by))
            THEN [added |-> FALSE, err |-> "agent is a descendant", q |-> q, cache |-> r.cache]
        ELSE [added |-> TRUE, err |-> "", q |-> Append(q, cn), cache |-> r.cache]

\* ConsiderationQueueMemory.Add
Add(q, cache, d, g, cn) ==
    LET r == Apply(cache, d, cn)
    IN  IF InQueue(q, ID(cn))
            THEN [added |-> FALSE, err |-> "", q |-> q, cache |-> cache]
        ELSE IF ~r.ok
            THEN [added |-> FALSE, err |-> "no imbalance", q |-> q, cache |-> cache]
        ELSE IF IsParentDescendant(g, pubKeyToString(cn.for), pubKeyToString(cn.by))
            THEN [added |-> FALSE, err |-> "agent is a descendant", q |-> q, cache |-> r.cache]
        ELSE [added |-> TRUE, err |-> "", q |-> Append(q, cn), cache |-> r.cache]

\* AddBatch that walks the batch from its first consideration to its last
RECURSIVE AddBatch_forward(_, _, _)
AddBatch_forward(q, cns, i) ==
    IF i < 1 THEN q
    ELSE LET c == cns[Len(cns) - i + 1]
         IN  AddBatch_forward(<<c>> \o RemoveID(q, ID(c)), cns, i - 1)

\* ConsiderationQueueMemory.AddBatch: to the front, in reverse order
RECURSIVE AddBatch(_, _, _)
AddBatch(q, cns, i) ==
    IF i < 1 THEN q
    ELSE AddBatch(<<cns[i]>> \o RemoveID(q, ID(cns[i])), cns, i - 1)

\* ConsiderationQueueMemory.reprocessQueue, over the copy tmp from position i
RECURSIVE reprocessQueue(_, _, _, _, _, _, _)
reprocessQueue(q, cache, d, g, tmp, i, height) ==
    IF i > Len(tmp) THEN [q |-> q, cache |-> cache]
    ELSE
    LET cn == tmp[i]
        r  == Apply(cache, d, cn)
    IN  IF ~checkConsiderationSeries(cn, height + 1) \/ ~IsMature(cn, height + 1)
           \/ IsExpired(cn, height + 1)
            THEN reprocessQueue(RemoveID(q, ID(cn)), cache, d, g, tmp, i + 1, height)
        ELSE IF ~r.ok
            THEN reprocessQueue(RemoveID(q, ID(cn)), cache, d, g, tmp, i + 1, height)
        ELSE IF IsParentDescendant(g, pubKeyToString(cn.for), pubKeyToString(cn.by))
            THEN reprocessQueue(RemoveID(q, ID(cn)), r.cache, d, g, tmp, i + 1, height)
        ELSE reprocessQueue(q, r.cache, d, g, tmp, i + 1, height)

\* RemoveBatch that leaves the listed ids in the queue
RemoveBatch_keep(q, cache, d, g, ids, height, more) ==
    IF more THEN [q |-> q, cache |-> cache]
    ELSE reprocessQueue(q, EmptyTable, d, g, q, 1, height)

\* ConsiderationQueueMemory.RemoveBatch
RemoveBatch(q, cache, d, g, ids, height, more) ==
    LET q2 == SelectSeq(q, LAMBDA c : ID(c) \notin ids)
    IN  IF more THEN [q |-> q2, cache |-> cache]
        ELSE reprocessQueue(q2, EmptyTable, d, g, q2, 1, height)

----------------------------------------------------------------------------
(* Processor: validation in context and fork choice *)

\* the checks of acceptView up to viewStore.Store; skipped tells that a signature
\* was taken as verified because the queue holds the consideration with it
acceptViewChecks(vs, q, view) ==
    LET prevHeader == vs[view.previous]
        n == Len(view.cns)
        known(i) == ExistsSigned(q, ID(view.cns[i]), view.cns[i].sig)
    IN  IF view.height # prevHeader.height + 1
            THEN [err |-> "unexpected height", skipped |-> FALSE]
        ELSE IF view.pointWork # computePointWork(prevHeader.pointWork)
            THEN [err |-> "incorrect point work", skipped |-> FALSE]
        ELSE IF view.time <= computeMedianTimestamp(vs, view.previous)
            THEN [err |-> "timestamp too early", skipped |-> FALSE]
        ELSE IF \E i \in 1..n : ~checkConsiderationSeries(view.cns[i], view.height)
            THEN [err |-> "invalid series", skipped |-> FALSE]
        ELSE IF \E i \in 2..n : ~IsMature(view.cns[i], view.height)
            THEN [err |-> "immature", skipped |-> FALSE]
        ELSE IF \E i \in 2..n : IsExpired(view.cns[i], view.height)
            THEN [err |-> "expired", skipped |-> FALSE]
        ELSE IF \E i \in 2..n : ~known(i) /\ ~Verify(view.cns[i])
            THEN [err |-> "signature verification failed", skipped |-> FALSE]
        ELSE [err |-> "", skipped |-> \E i \in 2..n : known(i)]

\* the walk of acceptViewContinue back to the common ancestor
RECURSIVE WalkBack(_, _, _, _, _)
WalkBack(vs, tipAncestorID, newAncestorID, disc, conn) ==
    IF vs[tipAncestorID].height > vs[newAncestorID].height
        THEN WalkBack(vs, vs[tipAncestorID].previous, newAncestorID,
                      Append(disc, tipAncestorID), conn)
    ELSE IF vs[newAncestorID].height > vs[tipAncestorID].height
        THEN WalkBack(vs, tipAncestorID, vs[newAncestorID].previous,
                      disc, <<newAncestorID>> \o conn)
    ELSE IF newAncestorID # tipAncestorID
        THEN WalkBack(vs, vs[tipAncestorID].previous, vs[newAncestorID].previous,
                      Append(disc, tipAncestorID), <<newAncestorID>> \o conn)
    ELSE [disc |-> disc, conn |-> conn]

\* acceptViewContinue up to its first ledger call: nothing to do, flag the view
\* SIDE, or the views to disconnect and to connect (the view itself last)
acceptViewContinue(vs, whs, d, id, view, viewWhen) ==
    LET tipID == d.tip.id
    IN  IF id = tipID THEN [kind |-> "nil", disc |-> <<>>, conn |-> <<>>]
        ELSE IF ~Compare(id, view.pointWork, viewWhen, tipID, vs[tipID].pointWork, whs[tipID])
            THEN [kind |-> "side", disc |-> <<>>, conn |-> <<>>]
        ELSE LET w == WalkBack(vs, tipID, view.previous, <<>>, <<>>)
             IN  [kind |-> "reorg", disc |-> w.disc, conn |-> Append(w.conn, id)]

NoEvent == [set |-> FALSE, id |-> ZeroID, connect |-> FALSE, more |-> FALSE]
\* a TipChange that never announces that more is coming
TipChange_nomore(id, connect, more) == [set |-> TRUE, id |-> id, connect |-> connect, more |-> FALSE]

TipChange(id, connect, more) == [set |-> TRUE, id |-> id, connect |-> connect, more |-> more]

NoReq == [id |-> ZeroID, phase |-> "none", err |-> "", skipped |-> FALSE,
          tipID |-> ZeroID, disc |-> <<>>, conn |-> <<>>, pending |-> NoEvent]
NoResult == [op |-> "none", id |-> ZeroID, err |-> "", skipped |-> FALSE, failed |-> FALSE]
NoStep == [op |-> "none", id |-> ZeroID, err |-> "", pending |-> 0, none |-> TRUE, all |-> TRUE]

MainSet(d) == {id \in DOMAIN d.branch : d.branch[id] = "MAIN"}

\* what ProcessView's caller could see of the ledger when the request was taken
Snapshot(d, better) == [tip |-> d.tip, main |-> MainSet(d), imb |-> d.imb, better |-> better]
NoSnap == [tip |-> NoTip, main |-> {}, imb |-> EmptyTable, better |-> FALSE]

\* the request is answered: the Processor is back in its select loop
Finish(id, err, skipped, failed) ==
    /\ pc' = "idle"
    /\ req' = NoReq
    /\ result' = [op |-> "view", id |-> id, err |-> err, skipped |-> skipped, failed |-> failed]

\* Processor.processView up to the first ledger call of the request
processView(id, view, genesisID, nowv) ==
    LET cv  == checkView(view, nowv)
        pbt == GetBranchType(db, view.previous)
        av  == acceptViewChecks(views, cnQueue, view)
        vs2 == Put(views, id, view)
        wh2 == Put(whens, id, nowv)
        plan == acceptViewContinue(vs2, wh2, db, id, view, nowv)
        stay == UNCHANGED <<db, views, whens, nNew>>
        stored == /\ views' = vs2
                  /\ whens' = wh2
                  /\ nNew' = IF id \in DOMAIN views THEN nNew ELSE nNew + 1
    IN  IF GetBranchType(db, id) # "UNKNOWN" THEN Finish(id, "", FALSE, FALSE) /\ stay
        ELSE IF cv # "" THEN Finish(id, cv, FALSE, FALSE) /\ stay
        ELSE IF pbt # "MAIN" /\ pbt # "SIDE" THEN
            IF id = genesisID
            THEN /\ stored
                 /\ db' = db
                 /\ pc' = "reorg"
                 /\ req' = [NoReq EXCEPT !.id = id, !.phase = "genesis", !.conn = <<id>>]
                 /\ result' = NoResult
            ELSE Finish(id, "orphan", FALSE, FALSE) /\ stay
        ELSE IF av.err # "" THEN Finish(id, av.err, FALSE, FALSE) /\ stay
        ELSE IF plan.kind = "side"
            THEN /\ stored
                 /\ db' = SetBranchType(db, id, "SIDE")
                 /\ Finish(id, "", av.skipped, FALSE)
        ELSE /\ stored
             /\ db' = db
             /\ pc' = "reorg"
             /\ req' = [NoReq EXCEPT !.id = id, !.phase = "accept", !.skipped = av.skipped,
                                     !.tipID = db.tip.id, !.disc = plan.disc,
                                     !.conn = plan.conn]
             /\ result' = NoResult

\* a TipChange as the record of the request keeps it: with the part of acceptView
\* that sent it (acceptViewContinue for the new view, or reconnectTip)
Sent(ev, phase) == [id |-> ev.id, connect |-> ev.connect, more |-> ev.more, phase |-> phase]

\* the outcome of one step of the reorganisation is recorded for the ledger claims
StepOf(op, id, r, d2) ==
    [op |-> op, id |-> id, err |-> r.err, pending |-> Len(r.batch),
     none |-> d2 = db, all |-> d2 = WriteBatch(db, r.batch)]

\* after a TipChange went out (or nobody listens): next view or answer the request
Proceed(rest) ==
    IF rest.disc = <<>> /\ rest.conn = <<>>
    THEN Finish(rest.id, rest.err, rest.skipped, rest.phase = "reconnect")
    ELSE /\ pc' = "reorg"
         /\ req' = rest
         /\ result' = result

\* acceptView's handling of an error from acceptViewContinue: reconnectTip, then
\* the original error is returned whatever reconnectTip did
Recover(err, d) ==
    LET tipID == req.tipID
        plan == acceptViewContinue(views, whens, d, tipID, views[tipID], whens[tipID])
    IN  IF req.phase = "accept" /\ plan.kind = "reorg"
        THEN /\ db' = d
             /\ pc' = "reorg"
             /\ req' = [req EXCEPT !.phase = "reconnect", !.err = err,
                                   !.disc = plan.disc, !.conn = plan.conn]
             /\ result' = result
        ELSE IF req.phase = "accept" /\ plan.kind = "side"
        THEN /\ db' = SetBranchType(d, tipID, "SIDE")
             /\ Finish(req.id, err, req.skipped, TRUE)
        ELSE /\ db' = d
             /\ Finish(req.id, IF req.phase = "reconnect" THEN req.err ELSE err,
                       req.skipped, TRUE)

\* one iteration of the loops of acceptViewContinue: Processor.disconnectView or
\* Processor.connectView up to the send on the tip change channels
ReorgStep ==
    /\ pc = "reorg"
    /\ LET isDisc == req.disc # <<>>
           id == IF isDisc THEN Head(req.disc) ELSE Head(req.conn)
           view == views[id]
           more == ~isDisc /\ Len(req.conn) > 1
           r == IF isDisc THEN DisconnectView(db, views, id, view)
                ELSE ConnectView(db, views, graph, id, view)
           d2 == Commit(db, r)
           nonVp == Tail(view.cns)
           qr == IF isDisc
                 THEN [q |-> AddBatch(cnQueue, nonVp, Len(nonVp)), cache |-> qCache]
                 ELSE RemoveBatch(cnQueue, qCache, d2, graph, {ID(c) : c \in Range(nonVp)},
                                  view.height, more)
           rest == [req EXCEPT !.disc = IF isDisc THEN Tail(@) ELSE @,
                               !.conn = IF isDisc THEN @ ELSE Tail(@)]
       IN  /\ step' = StepOf(IF isDisc THEN "disconnect" ELSE "connect", id, r, d2)
           /\ IF r.err = "panic"
              THEN /\ pc' = "crashed"
                   /\ db' = d2
                   /\ UNCHANGED <<req, result, cnQueue, qCache, tipChan, sent>>
              ELSE IF r.err # ""
              THEN /\ Recover(r.err, d2)
                   /\ UNCHANGED <<cnQueue, qCache, tipChan, sent>>
              ELSE /\ db' = d2
                   /\ cnQueue' = qr.q
                   /\ qCache' = qr.cache
                   /\ IF ~subscribed
                      THEN Proceed(rest) /\ tipChan' = tipChan /\ sent' = sent
                      ELSE IF Len(tipChan) < TipChanCap
                      THEN /\ tipChan' = Append(tipChan, TipChange(id, ~isDisc, more))
                           /\ sent' = Append(sent, Sent(TipChange(id, ~isDisc, more), req.phase))
                           /\ Proceed(rest)
                      ELSE /\ tipChan' = tipChan
                           /\ sent' = sent
                           /\ pc' = "send"
                           /\ req' = [rest EXCEPT !.pending = TipChange(id, ~isDisc, more)]
                           /\ result' = result
    /\ UNCHANGED <<views, whens, graph, snap, idxEvent, subscribed, now, nNew>>

\* the Processor blocked in "ch <- TipChange{...}" gets room in the channel
SendTipChange ==
    /\ pc = "send"
    /\ Len(tipChan) < TipChanCap
    /\ tipChan' = Append(tipChan, req.pending)
    /\ sent' = Append(sent, Sent(req.pending, req.phase))
    /\ Proceed([req EXCEPT !.pending = NoEvent])
    /\ UNCHANGED <<db, views, whens, graph, cnQueue, qCache, snap, idxEvent, subscribed,
                   now, nNew, step>>

\* processConsideration without the look into the consideration index
processConsideration_unconfirmed(q, cache, d, g, cn) ==
    LET a == Add(q, cache, d, g, cn)
        err == IF checkConsideration(cn) # "" THEN checkConsideration(cn)
               ELSE IF IsViewpoint(cn) THEN "loose viewpoint"
               ELSE IF Len(q) >= MAX_CONSIDERATION_QUEUE_LENGTH THEN "queue is full"
               ELSE IF ~HasTip(d) THEN "no tip"
               ELSE IF ~checkConsiderationSeries(cn, d.tip.height + 1) THEN "invalid series"
               ELSE IF ~IsMature(cn, d.tip.height + 1) THEN "not mature"
               ELSE IF IsExpired(cn, d.tip.height + 1) THEN "expired"
               ELSE IF ~Verify(cn) THEN "signature verification failed"
               ELSE "add"
    IN  IF err # "add"
        THEN [err |-> err, q |-> q, cache |-> cache, newTx |-> FALSE]
        ELSE [err |-> a.err, q |-> a.q, cache |-> a.cache, newTx |-> a.added]

\* Processor.processConsideration: the error it returns, the queue and its cache
\* afterwards, and whether a NewTx went to the registered channels
processConsideration(q, cache, d, g, cn) ==
    LET a == Add(q, cache, d, g, cn)
        err == IF checkConsideration(cn) # "" THEN checkConsideration(cn)
               ELSE IF IsViewpoint(cn) THEN "loose viewpoint"
               ELSE IF Len(q) >= MAX_CONSIDERATION_QUEUE_LENGTH THEN "queue is full"
               ELSE IF ID(cn) \in DOMAIN d.cnIdx THEN "already confirmed"
               ELSE IF ~HasTip(d) THEN "no tip"
               ELSE IF ~checkConsiderationSeries(cn, d.tip.height + 1) THEN "invalid series"
               ELSE IF ~IsMature(cn, d.tip.height + 1) THEN "not mature"
               ELSE IF IsExpired(cn, d.tip.height + 1) THEN "expired"
               ELSE IF ~Verify(cn) THEN "signature verification failed"
               ELSE "add"
    IN  IF err # "add"
        THEN [err |-> err, q |-> q, cache |-> cache, newTx |-> FALSE]
        ELSE [err |-> a.err, q |-> a.q, cache |-> a.cache, newTx |-> a.added]

\* Processor.ProcessConsideration, handled between two view requests
ProcessConsideration(cn) ==
    /\ pc = "idle"
    /\ LET o == processConsideration(cnQueue, qCache, db, graph, cn)
       IN  /\ cnQueue' = o.q
           /\ qCache' = o.cache
    /\ UNCHANGED <<db, views, whens, graph, pc, req, result, snap, tipChan, idxEvent, subscribed,
                   now, nNew, step, sent>>

----------------------------------------------------------------------------
(* Indexer *)

\* Indexer.indexConsiderations from consideration i: one Link per consideration
\* (the comparison g2 = g2 has TLC evaluate the graph before it goes on)
RECURSIVE indexConsiderations(_, _, _, _)
indexConsiderations(g, view, increment, i) ==
    IF i > Len(view.cns) THEN g
    ELSE LET g2 == Link(g, pubKeyToString(view.cns[i].by), pubKeyToString(view.cns[i].for),
                        IF increment THEN 1 ELSE -1)
         IN  IF g2 = g2 THEN indexConsiderations(g2, view, increment, i + 1) ELSE g

\* the walk of Indexer.run over the main point before it registers: the views at
\* heights lo..hi in order (halved so that the evaluation stays shallow)
RECURSIVE IndexRange(_, _, _, _, _)
IndexRange(g, d, vs, lo, hi) ==
    IF lo > hi THEN g
    ELSE IF lo = hi THEN indexConsiderations(g, vs[GetViewIDForHeight(d, lo)], TRUE, 1)
    ELSE LET mid == (lo + hi) \div 2
             g2 == IndexRange(g, d, vs, lo, mid)
         IN  IF g2 = g2 THEN IndexRange(g2, d, vs, mid + 1, hi) ELSE g

\* the last height the walk finds a view at, starting from height 0
WalkTop(d) ==
    IF ~HasViewAtHeight(d, 0) THEN 0 - 1
    ELSE CHOOSE h \in DOMAIN d.heightIdx :
            /\ ~HasViewAtHeight(d, h + 1)
            /\ \A k \in 0..h : HasViewAtHeight(d, k)

\* Indexer.run once the node is synced: index the main point, then register
IndexerStart ==
    /\ pc = "idle"
    /\ ~subscribed
    /\ graph' = IndexRange(graph, db, views, 0, WalkTop(db))
    /\ subscribed' = TRUE
    /\ UNCHANGED <<db, views, whens, cnQueue, qCache, pc, req, result, snap, tipChan,
                   idxEvent, now, nNew, step, sent>>

\* "case tip := <-tipChangeChan"
IndexerRecv ==
    /\ ~idxEvent.set
    /\ tipChan # <<>>
    /\ idxEvent' = Head(tipChan)
    /\ tipChan' = Tail(tipChan)
    /\ UNCHANGED <<db, views, whens, graph, cnQueue, qCache, pc, req, result, snap,
                   subscribed, now, nNew, step, sent>>

\* idx.indexConsiderations(tip.View, tip.ViewID, tip.Connect)
IndexerIndex ==
    /\ idxEvent.set
    /\ graph' = indexConsiderations(graph, views[idxEvent.id], idxEvent.connect, 1)
    /\ idxEvent' = NoEvent
    /\ UNCHANGED <<db, views, whens, cnQueue, qCache, pc, req, result, snap, tipChan,
                   subscribed, now, nNew, step, sent>>

----------------------------------------------------------------------------
(* The synced node and what reaches it *)

Viewpoint(for, nonce, height) ==
    [time |-> 0, nonce |-> nonce, by |-> NoKey, for |-> for, memo |-> 0, matures |-> 0,
     expires |-> 0, series |-> (height \div VIEWS_UNTIL_NEW_SERIES) + 1, sig |-> NoSig]

\* a consideration of series 1 from by to for, signed with signer's key
Spend(by, for, signer) ==
    LET c == [time |-> 0, nonce |-> 0, by |-> by, for |-> for, memo |-> 0, matures |-> 0,
              expires |-> 0, series |-> 1, sig |-> NoSig]
    IN  [c EXCEPT !.sig = SignatureOf(signer, c)]

CnPool == {Spend("A", "B", "A"), Spend("A", "B", "B"), Spend("B", "A", "B")}

\* the views of the synced point: heights 0 .. VIEWPOINT_MATURITY - 1, each with
\* only a viewpoint for key A
GenesisID == <<0, 1>>
BaseID(h) == <<0, h + 1>>
BaseView(h) ==
    [previous |-> IF h = 0 THEN ZeroID ELSE BaseID(h - 1), height |-> h, time |-> h,
     pointWork |-> SetBigInt(h + 1), cns |-> <<Viewpoint("A", h + 1, h)>>]
BaseHeights == 0..(VIEWPOINT_MATURITY - 1)
BaseViews == [id \in {BaseID(h) : h \in BaseHeights} |-> BaseView(id[2] - 1)]
BaseDb ==
    [tip |-> [set |-> TRUE, id |-> BaseID(VIEWPOINT_MATURITY - 1),
              height |-> VIEWPOINT_MATURITY - 1],
     heightIdx |-> [h \in BaseHeights |-> BaseID(h)],
     branch |-> [id \in DOMAIN BaseViews |-> "MAIN"],
     cnIdx |-> [c \in {ID(BaseView(h).cns[1]) : h \in BaseHeights} |-> <<c[2] - 1, 0>>],
     pkIdx |-> {<<"A", h, 0>> : h \in BaseHeights},
     imb |-> EmptyTable]

\* ids of the views rendered after the sync, alternately above and below the first
NewID(n) == <<1, 128 + (IF n % 2 = 1 THEN (n + 1) \div 2 ELSE 0 - (n \div 2))>>

\* a view rendered on top of a stored view
MakeView(id, parentID, body) ==
    [previous |-> parentID, height |-> views[parentID].height + 1,
     time |-> views[parentID].time + 1,
     pointWork |-> computePointWork(views[parentID].pointWork),
     cns |-> <<Viewpoint("A", GetBigInt(id), views[parentID].height + 1)>> \o body]

\* what a renderer may put after the viewpoint: nothing, one consideration of the
\* pool, or the transfer from A to B followed by the one back
ViewBodies ==
    {<<>>} \cup {<<c>> : c \in CnPool}
           \cup (IF MaxViewCns >= 2 THEN {<<Spend("A", "B", "A"), Spend("B", "A", "B")>>}
                                    ELSE {})

Parents == {id \in DOMAIN views : views[id].height >= VIEWPOINT_MATURITY - 1}

\* would the view be the better point, by Compare against the tip
Better(id, view, nowv) ==
    /\ HasTip(db)
    /\ Compare(id, view.pointWork,
               IF GetBranchType(db, id) # "UNKNOWN" THEN whens[id] ELSE nowv,
               db.tip.id, views[db.tip.id].pointWork, whens[db.tip.id])

\* Processor.ProcessView with a view nobody submitted before; the wall clock may
\* have advanced since the last request
SubmitView ==
    /\ pc = "idle"
    /\ nNew < MaxNewViews
    /\ \E parentID \in Parents, body \in ViewBodies, dt \in 0..(MaxTicks - now) :
          LET id == NewID(nNew + 1)
              view == MakeView(id, parentID, body)
          IN  /\ now' = now + dt
              /\ snap' = Snapshot(db, Better(id, view, now + dt))
              /\ processView(id, view, GenesisID, now + dt)
    /\ sent' = <<>>
    /\ UNCHANGED <<graph, cnQueue, qCache, tipChan, idxEvent, subscribed, step>>

\* Processor.ProcessView with a view that was stored before
ResubmitView ==
    /\ pc = "idle"
    /\ \E id \in Parents :
          /\ snap' = Snapshot(db, Better(id, views[id], now))
          /\ processView(id, views[id], GenesisID, now)
    /\ sent' = <<>>
    /\ UNCHANGED <<graph, cnQueue, qCache, tipChan, idxEvent, subscribed, now, step>>

SubmitConsideration == \E cn \in CnPool : ProcessConsideration(cn)

\* the graph after the Indexer's walk over the synced point
BaseGraph == IndexRange(EmptyGraph, BaseDb, BaseViews, 0, WalkTop(BaseDb))

Init ==
    /\ db = BaseDb
    /\ views = BaseViews
    /\ whens = [id \in DOMAIN BaseViews |-> 0]
    /\ graph = BaseGraph
    /\ cnQueue = <<>>
    /\ qCache = EmptyTable
    /\ pc = "idle"
    /\ req = NoReq
    /\ result = NoResult
    /\ snap = NoSnap
    /\ tipChan = <<>>
    /\ idxEvent = NoEvent
    /\ subscribed = TRUE
    /\ now = 0
    /\ nNew = 0
    /\ step = NoStep
    /\ sent = <<>>

Next ==
    \/ SubmitView
    \/ ResubmitView
    \/ ReorgStep
    \/ SendTipChange
    \/ SubmitConsideration
    \/ IndexerRecv
    \/ IndexerIndex

Spec == Init /\ [][Next]_vars

----------------------------------------------------------------------------
(* Properties of the ledger *)

RECURSIVE SumOver(_, _)
SumOver(f, S) == IF S = {} THEN 0
                 ELSE LET k == CHOOSE x \in S : TRUE IN f[k] + SumOver(f, S \ {k})
SumImbalances(d) == SumOver(d.imb, DOMAIN d.imb)
Max0(n) == IF n > 0 THEN n ELSE 0

\* C1: in every state of the ledger the imbalances of all keys add up to
\* max(0, tipHeight - VIEWPOINT_MATURITY + 1), and to 0 while there is no tip.
C1_ImbalanceSum ==
    SumImbalances(db) =
        IF HasTip(db) THEN Max0(db.tip.height - VIEWPOINT_MATURITY + 1) ELSE 0

\* a main point two views above maturity on which a transfer left B with an imbalance
C1_Witness ==
    /\ db.tip.height = VIEWPOINT_MATURITY + 1
    /\ GetPublicKeyImbalance(db, "B") = 1
    /\ SumImbalances(db) = 2

\* the views that may be connected next: any rendering on top of the tip, and
\* the stored views whose parent is the tip
NextViews ==
    {[id |-> NewID(nNew + 1), view |-> MakeView(NewID(nNew + 1), db.tip.id, body)] :
        body \in ViewBodies}
    \cup {[id |-> id, view |-> views[id]] :
            id \in {x \in DOMAIN views : /\ views[x].previous = db.tip.id
                                         /\ views[x].height = db.tip.height + 1}}

\* ConnectView then DisconnectView of the same view, from ledger image d
RoundTrip(d, vs, g, id, view) ==
    LET r1 == ConnectView(d, vs, g, id, view)
        d1 == Commit(d, r1)
        r2 == DisconnectView(d1, Put(vs, id, view), id, view)
    IN  [accepted |-> r1.err = "", err |-> r2.err, db |-> Commit(d1, r2)]

\* C2: for every view that ConnectView accepts on top of the current tip,
\* connecting it and then disconnecting it gives back the tip, the height index,
\* the consideration index, the key index and the imbalances; of the branch
\* types only the view's own differs, it is SIDE.
C2_ConnectDisconnectRoundTrip ==
    HasTip(db) =>
        \A c \in NextViews :
            LET rt == RoundTrip(db, views, graph, c.id, c.view)
            IN  rt.accepted =>
                    /\ rt.err = ""
                    /\ rt.db = [db EXCEPT !.branch = Put(@, c.id, "SIDE")]

\* a view with transfers and a maturing viewpoint was connected and is disconnected
\* again, and the imbalances it had moved are gone
C2_Witness ==
    /\ step.op = "disconnect"
    /\ step.err = ""
    /\ Len(views[step.id].cns) = 3
    /\ views[step.id].height = VIEWPOINT_MATURITY
    /\ GetBranchType(db, step.id) = "SIDE"
    /\ db.imb = EmptyTable

\* C3: ConnectView and DisconnectView are all-or-nothing: a call that returns an
\* error has committed none of its writes, a call that succeeds all of them.
C3_AllOrNothing ==
    /\ step.err # "" => step.none
    /\ step.err = "" => step.all

\* ConnectView failed after it had put writes into its batch
C3_Witness ==
    /\ step.op = "connect"
    /\ step.err = "insufficient imbalance"
    /\ step.pending > 0

\* the imbalance of key k after the first i considerations of the view took
\* effect on ledger image d (the viewpoint takes effect as the one that matures)
RECURSIVE BalanceAfter(_, _, _, _, _)
BalanceAfter(d, vs, view, i, k) ==
    IF i = 0 THEN GetPublicKeyImbalance(d, k)
    ELSE LET cn == view.cns[i]
             before == BalanceAfter(d, vs, view, i - 1, k)
         IN  IF IsViewpoint(cn)
             THEN IF view.height >= VIEWPOINT_MATURITY /\ OldViewpoint(d, vs, view.height).for = k
                  THEN before + 1 ELSE before
             ELSE before + (IF cn.for = k THEN 1 ELSE 0) - (IF cn.by = k THEN 1 ELSE 0)

\* C4: ConnectView accepts a view only if the sender of each consideration that
\* is not a viewpoint holds at least 1 once the earlier considerations of the
\* view are applied; so no imbalance in the ledger is negative.
C4_SendersCovered ==
    /\ \A k \in DOMAIN db.imb : db.imb[k] >= 0
    /\ HasTip(db) =>
        \A c \in NextViews :
            ConnectView(db, views, graph, c.id, c.view).err = "" =>
                \A i \in 2..Len(c.view.cns) :
                    BalanceAfter(db, views, c.view, i - 1, c.view.cns[i].by) >= 1

\* a connected view in which B could spend only what A had sent it before
C4_Witness ==
    /\ step.op = "connect"
    /\ step.err = ""
    /\ Len(views[step.id].cns) = 3
    /\ db.tip.id = step.id
    /\ GetPublicKeyImbalance(db, "B") = 0

----------------------------------------------------------------------------
(* Properties of the Processor *)

\* the views that were given a branch type: connected once, or flagged SIDE
Accepted == {id \in DOMAIN db.branch : db.branch[id] \in {"MAIN", "SIDE"}}

\* C7: every consideration that is not a viewpoint, in the queue or in an
\* accepted view, carries a signature that verifies for its sender, also when
\* acceptView took the signature as verified because ExistsSigned said so.
C7_SignaturesVerify ==
    /\ \A i \in 1..Len(cnQueue) : Verify(cnQueue[i])
    /\ \A id \in Accepted : \A i \in 2..Len(views[id].cns) : Verify(views[id].cns[i])

\* a view was accepted without verifying a signature the queue vouched for
C7_Witness ==
    /\ result.op = "view"
    /\ result.err = ""
    /\ result.skipped
    /\ result.id \in Accepted

\* the view and its ancestors, gathered walking back from id (the comparisons
\* have TLC evaluate the arguments before the walk goes on)
RECURSIVE AncestorsFrom(_, _, _)
AncestorsFrom(vs, id, acc) ==
    IF id \notin DOMAIN vs THEN acc
    ELSE LET p == vs[id].previous
             acc2 == acc \cup {id}
         IN  IF p = p /\ acc2 = acc2 THEN AncestorsFrom(vs, p, acc2) ELSE acc
Ancestors(vs, id) == AncestorsFrom(vs, id, {})

\* C8: when ProcessView succeeds for a view that was a better point than the tip,
\* the view is the tip, the MAIN views are the view and its ancestors, and the
\* views that were MAIN and are no ancestors of it are SIDE.
C8_ReorgOutcome ==
    (result.op = "view" /\ result.err = "" /\ snap.better) =>
        /\ db.tip.id = result.id
        /\ MainSet(db) = Ancestors(views, result.id)
        /\ \A id \in snap.main \ Ancestors(views, result.id) : GetBranchType(db, id) = "SIDE"

\* a reorganisation went through: a view that was MAIN is SIDE, the new one is the tip
C8_Witness ==
    /\ result.op = "view"
    /\ result.err = ""
    /\ snap.better
    /\ db.tip.id = result.id
    /\ snap.main \ Ancestors(views, result.id) # {}

\* C9: when a connect or disconnect fails part-way through a reorganisation and
\* ProcessView returns the original error, the tip, the set of MAIN views and all
\* imbalances are what they were before the call.
C9_FailedReorgRestores ==
    (result.op = "view" /\ result.failed /\ result.err # "") =>
        /\ db.tip = snap.tip
        /\ MainSet(db) = snap.main
        /\ db.imb = snap.imb

\* a reorganisation that failed after it had disconnected the tip, and restored it
C9_Restored ==
    /\ result.op = "view"
    /\ result.failed
    /\ step.op = "connect"
    /\ step.err = ""
    /\ step.id = snap.tip.id
    /\ db.tip = snap.tip

----------------------------------------------------------------------------
(* The initial view download: a node started on an empty ledger is fed the point
   view by view, the Indexer waits for the end of the sync *)

SyncInit ==
    /\ db = EmptyDb
    /\ views = EmptyTable
    /\ whens = EmptyTable
    /\ graph = EmptyGraph
    /\ cnQueue = <<>>
    /\ qCache = EmptyTable
    /\ pc = "idle"
    /\ req = NoReq
    /\ result = NoResult
    /\ snap = NoSnap
    /\ tipChan = <<>>
    /\ idxEvent = NoEvent
    /\ subscribed = FALSE
    /\ now = 0
    /\ nNew = 0
    /\ step = NoStep
    /\ sent = <<>>

ForkID(h) == <<1, h + 1>>
OnBaseLine == \A id \in DOMAIN views : id[1] = 0

\* a view with only a viewpoint for key k, on top of the stored view parentID
SyncViewOn(id, parentID, k) ==
    [previous |-> parentID, height |-> views[parentID].height + 1,
     time |-> views[parentID].time + 1,
     pointWork |-> computePointWork(views[parentID].pointWork),
     cns |-> <<Viewpoint(k, GetBigInt(id), views[parentID].height + 1)>>]

\* the genesis view is processed: its viewpoint names the key of the whole run
SyncGenesis ==
    /\ pc = "idle"
    /\ ~HasTip(db)
    /\ ~subscribed
    /\ nNew = 0
    /\ \E k \in Keys :
          LET view == [BaseView(0) EXCEPT !.cns = <<Viewpoint(k, 1, 0)>>]
          IN  /\ snap' = Snapshot(db, FALSE)
              /\ processView(GenesisID, view, GenesisID, now)
    /\ sent' = <<>>
    /\ UNCHANGED <<graph, cnQueue, qCache, tipChan, idxEvent, subscribed, now, step>>

\* the next view of the point is processed
SyncView ==
    /\ pc = "idle"
    /\ HasTip(db)
    /\ ~subscribed
    /\ OnBaseLine
    /\ nNew < MaturityRun
    /\ LET id == BaseID(db.tip.height + 1)
           view == SyncViewOn(id, db.tip.id, views[GenesisID].cns[1].for)
       IN  /\ snap' = Snapshot(db, Better(id, view, now))
           /\ processView(id, view, GenesisID, now)
    /\ sent' = <<>>
    /\ UNCHANGED <<graph, cnQueue, qCache, tipChan, idxEvent, subscribed, now, step>>

\* a competing view arrives: first a sibling of the tip, then that sibling's child,
\* which makes the competing branch the better point
SyncFork ==
    /\ pc = "idle"
    /\ HasTip(db)
    /\ ~subscribed
    /\ db.tip.height >= 1
    /\ db.tip.id = BaseID(db.tip.height)
    /\ LET h == db.tip.height
           sibling == ForkID(h) \in DOMAIN views
           id == IF sibling THEN ForkID(h + 1) ELSE ForkID(h)
           parentID == IF sibling THEN ForkID(h) ELSE views[db.tip.id].previous
           view == SyncViewOn(id, parentID, views[GenesisID].cns[1].for)
       IN  /\ sibling \/ OnBaseLine
           /\ snap' = Snapshot(db, Better(id, view, now))
           /\ processView(id, view, GenesisID, now)
    /\ sent' = <<>>
    /\ UNCHANGED <<graph, cnQueue, qCache, tipChan, idxEvent, subscribed, now, step>>

SyncNext ==
    \/ SyncGenesis
    \/ SyncView
    \/ SyncFork
    \/ ReorgStep
    \/ (IndexerStart /\ HasTip(db))

SyncSpec == SyncInit /\ [][SyncNext]_vars

\* the node that Init starts from: synced over the first VIEWPOINT_MATURITY views,
\* the Indexer through its walk and registered (SyncSpec reaches this state)
SyncedNode ==
    /\ db = BaseDb
    /\ views = BaseViews
    /\ whens = [id \in DOMAIN BaseViews |-> 0]
    /\ graph = BaseGraph
    /\ cnQueue = <<>> /\ qCache = EmptyTable
    /\ pc = "idle" /\ req = NoReq
    /\ tipChan = <<>> /\ idxEvent = NoEvent
    /\ subscribed /\ now = 0 /\ sent = <<>>

\* the recipient of the viewpoint of the MAIN view at height h, in ledger image d
ViewpointKeyAt(d, h) == views[GetViewIDForHeight(d, h)].cns[1].for

\* how the imbalance of key k moves when the view at height h is connected
MaturedCredit(d, h, k) == IF h >= 100 /\ ViewpointKeyAt(d, h - 100) = k THEN 1 ELSE 0

TipHeight(d) == IF HasTip(d) THEN d.tip.height ELSE 0 - 1

\* C5: a viewpoint at height h credits its recipient exactly when the view at
\* height h + 100 is connected and the credit is taken back exactly when that
\* view is disconnected; after n connects of views that hold only a viewpoint
\* for one key the key's imbalance is max(0, n - 100).
C5_ViewpointMaturity ==
    /\ [](HasTip(db) =>
            \A k \in Keys :
                GetPublicKeyImbalance(db, k) =
                    IF k = ViewpointKeyAt(db, 0) THEN Max0(db.tip.height + 1 - 100) ELSE 0)
    /\ [][\A k \in Keys :
            GetPublicKeyImbalance(db', k) - GetPublicKeyImbalance(db, k) =
                IF TipHeight(db') = TipHeight(db) + 1
                    THEN MaturedCredit(db', TipHeight(db'), k)
                ELSE IF TipHeight(db') = TipHeight(db) - 1
                    THEN 0 - MaturedCredit(db, TipHeight(db), k)
                ELSE 0]_vars

\* 200 views connected, each with only a viewpoint for A: A holds 100
C5_Witness ==
    /\ HasTip(db)
    /\ db.tip.height + 1 = 200
    /\ step.op = "connect" /\ step.err = ""
    /\ ViewpointKeyAt(db, 0) = "A"
    /\ GetPublicKeyImbalance(db, "A") = 100

----------------------------------------------------------------------------
(* Consideration.IsMature on its own: a consideration that matures at m is
   checked for a view at height h *)

MaxMatures == 9
MaxCheckHeight == 9

\* the variables the calls below do not touch
Untouched ==
    /\ db = EmptyDb /\ views = EmptyTable /\ whens = EmptyTable /\ graph = EmptyGraph
    /\ cnQueue = <<>> /\ qCache = EmptyTable /\ snap = NoSnap /\ tipChan = <<>>
    /\ idxEvent = NoEvent /\ subscribed = FALSE /\ now = 0 /\ nNew = 0 /\ step = NoStep
    /\ sent = <<>>

MatureInit ==
    /\ Untouched
    /\ pc = "call"
    /\ result = FALSE
    /\ \E m \in 0..MaxMatures, h \in 0..MaxCheckHeight :
          req = [cn |-> [Spend("A", "B", "A") EXCEPT !.matures = m], height |-> h]

\* "if !cn.IsMature(view.Header.Height)" in acceptView
CallIsMature ==
    /\ pc = "call"
    /\ result' = IsMature(req.cn, req.height)
    /\ pc' = "done"
    /\ UNCHANGED <<db, views, whens, graph, cnQueue, qCache, req, snap, tipChan, idxEvent,
                   subscribed, now, nNew, step, sent>>

MatureSpec == MatureInit /\ [][CallIsMature]_vars

\* C6: a consideration that is no viewpoint and has matures = m > 0 passes the
\* maturity check for a view at height h if and only if h >= m.
C6_MatureFromHeight ==
    (pc = "done" /\ req.cn.matures > 0) => (result <=> req.height >= req.cn.matures)

----------------------------------------------------------------------------
(* ViewHeader.Compare on its own: three headers with the times they were stored *)

CompareIDs == {<<0, 1>>, <<0, 2>>, <<1, 0>>}
CompareWorks == {<<0, 2>>, <<1, 0>>}
CompareWhens == {0, 1}
Headers == [id : CompareIDs, work : CompareWorks, when : CompareWhens]

CompareInit ==
    /\ Untouched
    /\ pc = "call"
    /\ result = [ab |-> FALSE, ba |-> FALSE, bc |-> FALSE, ac |-> FALSE]
    /\ \E a \in Headers, b \in Headers, c \in Headers :
          \* the id is the hash of the header and a view is stored once
          /\ a.id = b.id => a = b
          /\ b.id = c.id => b = c
          /\ a.id = c.id => a = c
          /\ req = [a |-> a, b |-> b, c |-> c]

CompareOf(x, y) == Compare(x.id, x.work, x.when, y.id, y.work, y.when)

CallCompare ==
    /\ pc = "call"
    /\ result' = [ab |-> CompareOf(req.a, req.b), ba |-> CompareOf(req.b, req.a),
                  bc |-> CompareOf(req.b, req.c), ac |-> CompareOf(req.a, req.c)]
    /\ pc' = "done"
    /\ UNCHANGED <<db, views, whens, graph, cnQueue, qCache, req, snap, tipChan, idxEvent,
                   subscribed, now, nNew, step, sent>>

CompareSpec == CompareInit /\ [][CallCompare]_vars

\* the bytes of an id or of a point work as a number, most significant byte first
AsNumber(bytes) == 256 * bytes[1] + bytes[2]

\* C10: Compare(a, b) is true exactly when a has the greater point work, or equal
\* work and the earlier store time, or both equal and the smaller id as a number;
\* of two headers with distinct ids exactly one is the better; Compare is transitive.
C10_CompareIsStrictOrder ==
    pc = "done" =>
        /\ result.ab <=>
              \/ AsNumber(req.a.work) > AsNumber(req.b.work)
              \/ /\ AsNumber(req.a.work) = AsNumber(req.b.work)
                 /\ req.a.when < req.b.when
              \/ /\ AsNumber(req.a.work) = AsNumber(req.b.work)
                 /\ req.a.when = req.b.when
                 /\ AsNumber(req.a.id) < AsNumber(req.b.id)
        /\ req.a.id # req.b.id => (result.ab <=> ~result.ba)
        /\ (result.ab /\ result.bc) => result.ac

\* the tie of work and store time is broken by the id: <<0, 2>> is below <<1, 0>>
C10_Witness ==
    /\ pc = "done"
    /\ req.a.work = req.b.work /\ req.a.when = req.b.when
    /\ req.a.id = <<0, 2>> /\ req.b.id = <<1, 0>>
    /\ result.ab /\ ~result.ba

----------------------------------------------------------------------------
(* Properties of the Processor: side branches and tip change events *)

\* C11: a valid view that is not the better point is stored and flagged SIDE and
\* nothing else changes: the tip, the MAIN views, the imbalances, the indices and
\* the queue stay as they were and no TipChange is sent.
C11_SideViewFrame ==
    [][(/\ pc = "idle"
        /\ result'.op = "view"
        /\ result'.err = ""
        /\ GetBranchType(db, result'.id) = "UNKNOWN"
        /\ ~snap'.better)
       => (/\ pc' = "idle"
           /\ result'.id \in DOMAIN views'
           /\ db' = [db EXCEPT !.branch = Put(@, result'.id, "SIDE")]
           /\ MainSet(db') = MainSet(db)
           /\ cnQueue' = cnQueue
           /\ qCache' = qCache
           /\ tipChan' = tipChan
           /\ idxEvent' = idxEvent
           /\ graph' = graph)]_vars

\* a view that lost against the tip is stored and SIDE while the queue holds a
\* consideration and the tip is the one from before the call
C11_Witness ==
    /\ pc = "idle"
    /\ result.op = "view"
    /\ result.err = ""
    /\ ~snap.better
    /\ result.id \notin DOMAIN BaseViews
    /\ GetBranchType(db, result.id) = "SIDE"
    /\ db.tip = snap.tip
    /\ db.tip.height = VIEWPOINT_MATURITY
    /\ cnQueue # <<>>

----------------------------------------------------------------------------
(* Two branches growing side by side: the views reach the Processor within one
   second, so that the point with the smaller tip id wins among equals and a
   reorganisation may take back more than one view *)

MaxForkViews == 4

\* what the renderers of the two branches put after the viewpoint
ForkBodies ==
    {<<>>, <<Spend("A", "B", "A")>>, <<Spend("B", "A", "B")>>,
     <<Spend("A", "B", "A"), Spend("B", "A", "B")>>}

ForkView ==
    /\ pc = "idle"
    /\ nNew < MaxForkViews
    /\ \E parentID \in Parents, body \in ForkBodies :
          LET id == NewID(nNew + 1)
              view == MakeView(id, parentID, body)
          IN  /\ snap' = Snapshot(db, Better(id, view, now))
              /\ processView(id, view, GenesisID, now)
    /\ sent' = <<>>
    /\ UNCHANGED <<graph, cnQueue, qCache, tipChan, idxEvent, subscribed, now, step>>

ForkNext ==
    \/ ForkView
    \/ ReorgStep
    \/ SendTipChange
    \/ SubmitConsideration
    \/ IndexerRecv
    \/ IndexerIndex

ForkSpec == Init /\ [][ForkNext]_vars

\* the views of S as a sequence, by height: descending or ascending (no two views
\* of one branch share a height)
RECURSIVE ByHeight(_, _)
ByHeight(S, descending) ==
    IF S = {} THEN <<>>
    ELSE LET x == CHOOSE y \in S :
                    \A z \in S : IF descending THEN views[z].height <= views[y].height
                                 ELSE views[z].height >= views[y].height
         IN  <<x>> \o ByHeight(S \ {x}, descending)

\* the view request at hand, or the last one answered
RequestID == IF pc \in {"reorg", "send", "crashed"} THEN req.id ELSE result.id

\* the views from v back to the first one that was MAIN when the request was
\* taken (the common ancestor), that one left out
RECURSIVE NewBranch(_)
NewBranch(v) ==
    IF v \notin DOMAIN views \/ v \in snap.main THEN {}
    ELSE {v} \cup NewBranch(views[v].previous)

\* the height of the common ancestor of v and the old tip
RECURSIVE ForkHeight(_)
ForkHeight(v) ==
    IF v \notin DOMAIN views THEN 0 - 1
    ELSE IF v \in snap.main THEN views[v].height
    ELSE ForkHeight(views[v].previous)

\* the events a reorganisation from the MAIN views of the snapshot to view v is
\* expected to send: [id, connect, last]
ExpectedEvents(v) ==
    LET down == ByHeight({m \in snap.main : views[m].height > ForkHeight(v)}, TRUE)
        up == ByHeight(NewBranch(v), FALSE)
    IN  [i \in 1..Len(down) |-> [id |-> down[i], connect |-> FALSE, last |-> FALSE]]
        \o [i \in 1..Len(up) |-> [id |-> up[i], connect |-> TRUE, last |-> i = Len(up)]]

\* the events sent so far while acceptViewContinue worked on the new view
SentFor(phase) == SelectSeq(sent, LAMBDA e : e.phase = phase)

\* event e is the one expected: a disconnect of the view, or a connect of the
\* view with More set unless it is the last
AsExpected(e, x) ==
    /\ e.id = x.id
    /\ e.connect = x.connect
    /\ e.connect => (e.more <=> ~x.last)

\* C12: the TipChange events of a reorganisation reach a subscriber in order: one
\* Connect=false per disconnected view from the old tip down, then one
\* Connect=true per connected view upwards, More=true on each of these but the
\* new tip; when one view T is replaced by V' they are {T, false}, {V', true, More=false}.
C12_TipChangeOrder ==
    /\ [](LET ev == SentFor("accept")
              exp == ExpectedEvents(RequestID)
          IN  /\ ev # <<>> =>
                    /\ Len(ev) <= Len(exp)
                    /\ \A i \in 1..Len(ev) : AsExpected(ev[i], exp[i])
              /\ (pc = "idle" /\ result.op = "view" /\ result.err = "" /\ snap.better
                    /\ subscribed) =>
                    /\ Len(ev) = Len(exp)
                    /\ (Len(exp) = 2 /\ ~exp[1].connect) =>
                          sent = <<Sent(TipChange(snap.tip.id, FALSE, FALSE), "accept"),
                                   Sent(TipChange(result.id, TRUE, FALSE), "accept")>>
              /\ \A i \in 1..Len(sent) : \A j \in (i + 1)..Len(sent) :
                    (sent[i].phase = sent[j].phase /\ sent[i].connect) => sent[j].connect)
    /\ [][/\ Len(tipChan') > Len(tipChan) =>
                /\ tipChan' = Append(tipChan, tipChan'[Len(tipChan')])
                /\ sent' = Append(sent, Sent(tipChan'[Len(tipChan')], req.phase))
          /\ (idxEvent' # idxEvent /\ idxEvent'.set) =>
                /\ tipChan # <<>>
                /\ idxEvent' = Head(tipChan)
                /\ tipChan' = Tail(tipChan)]_vars

\* two views were taken back, the upper first, and two connected, the lower
\* first and with More set
C12_Witness ==
    /\ pc = "idle"
    /\ result.op = "view" /\ result.err = ""
    /\ Len(sent) = 4
    /\ ~sent[1].connect /\ ~sent[2].connect
    /\ views[sent[1].id].height = views[sent[2].id].height + 1
    /\ sent[3].connect /\ sent[3].more
    /\ sent[4].connect /\ ~sent[4].more /\ sent[4].id = db.tip.id

\* C13: a TipChange with More=true is followed by another event of its burst, and
\* one with More=false is the last event its ProcessView request sends.
C13_MoreMarksTheBurst ==
    \A i \in 1..Len(sent) :
        /\ ~sent[i].more => i = Len(sent)
        /\ (sent[i].more /\ pc = "idle") => i < Len(sent)

----------------------------------------------------------------------------
(* The Processor's inbound channels: ProcessConsideration sends on cnChan,
   ProcessView on viewChan, Processor.run takes from whichever its select picks.
   A request is the number of its send: req holds the two channels, result the
   requests in the order run handled them *)

CnChanCap == 100
ViewChanCap == 10
MaxRequests == 5

InboxInit ==
    /\ db = EmptyDb /\ views = EmptyTable /\ whens = EmptyTable /\ graph = EmptyGraph
    /\ cnQueue = <<>> /\ qCache = EmptyTable /\ snap = NoSnap /\ tipChan = <<>>
    /\ idxEvent = NoEvent /\ subscribed = FALSE /\ now = 0 /\ step = NoStep
    /\ sent = <<>>
    /\ pc = "select"
    /\ nNew = 0
    /\ req = [cnChan |-> <<>>, viewChan |-> <<>>]
    /\ result = <<>>

InboxFrame ==
    UNCHANGED <<db, views, whens, graph, cnQueue, qCache, pc, snap, tipChan, idxEvent,
                subscribed, now, step, sent>>

\* "p.cnChan <- cnToProcess{...}" in ProcessConsideration
SendConsideration ==
    /\ nNew < MaxRequests
    /\ Len(req.cnChan) < CnChanCap
    /\ nNew' = nNew + 1
    /\ req' = [req EXCEPT !.cnChan = Append(@, nNew + 1)]
    /\ result' = result
    /\ InboxFrame

\* "p.viewChan <- viewToProcess{...}" in ProcessView
SendView ==
    /\ nNew < MaxRequests
    /\ Len(req.viewChan) < ViewChanCap
    /\ nNew' = nNew + 1
    /\ req' = [req EXCEPT !.viewChan = Append(@, nNew + 1)]
    /\ result' = result
    /\ InboxFrame

\* "case cnToProcess := <-p.cnChan": the request is handled before the next select
RunConsideration ==
    /\ pc = "select"
    /\ req.cnChan # <<>>
    /\ result' = Append(result, Head(req.cnChan))
    /\ req' = [req EXCEPT !.cnChan = Tail(@)]
    /\ nNew' = nNew
    /\ InboxFrame

\* "case viewToProcess := <-p.viewChan"
RunView ==
    /\ pc = "select"
    /\ req.viewChan # <<>>
    /\ result' = Append(result, Head(req.viewChan))
    /\ req' = [req EXCEPT !.viewChan = Tail(@)]
    /\ nNew' = nNew
    /\ InboxFrame

InboxNext == SendConsideration \/ SendView \/ RunConsideration \/ RunView

InboxSpec == InboxInit /\ [][InboxNext]_vars

\* C14: the Processor handles the requests in the order they were submitted,
\* whatever their kind: a request sent before another one is handled first.
C14_RequestsInOrder ==
    \A i \in 1..Len(result) : result[i] = i

----------------------------------------------------------------------------
(* The graph as the Processor reads it *)

\* the TipChange events the Indexer has not indexed yet, oldest first
PendingEvents == (IF idxEvent.set THEN <<idxEvent>> ELSE <<>>) \o tipChan

\* the graph once the Indexer has indexed the events evs from the i-th on
RECURSIVE IndexAll(_, _, _)
IndexAll(g, evs, i) ==
    IF i > Len(evs) THEN g
    ELSE IndexAll(indexConsiderations(g, views[evs[i].id], evs[i].connect, 1), evs, i + 1)

\* C15: the edges of every view connected or disconnected before are in the graph
\* when the Processor asks IsParentDescendant for a later request: the answer is
\* the one the graph with those edges gives.
C15_EdgesVisible ==
    pc = "idle" =>
        \A cn \in CnPool :
            IsParentDescendant(graph, pubKeyToString(cn.for), pubKeyToString(cn.by))
                = IsParentDescendant(IndexAll(graph, PendingEvents, 1),
                                     pubKeyToString(cn.for), pubKeyToString(cn.by))

----------------------------------------------------------------------------
(* Properties of the consideration queue *)

\* what may be handed to ProcessConsideration: the pool, a viewpoint, and a
\* consideration with a memo that is too long
Candidates ==
    CnPool \cup {Viewpoint("A", 0, 0), [Spend("A", "B", "A") EXCEPT !.memo = MAX_MEMO_LENGTH + 1]}

\* C16: a consideration rejected on its way into the queue changes nothing: the
\* queue and its order and the imbalance the cache reports for every key are as
\* before, and no NewTx is sent.
C16_RejectionChangesNothing ==
    pc = "idle" =>
        \A cn \in Candidates :
            LET o == processConsideration(cnQueue, qCache, db, graph, cn)
            IN  o.err # "" =>
                    /\ o.q = cnQueue
                    /\ \A k \in Keys : CacheGet(o.cache, db, k) = CacheGet(qCache, db, k)
                    /\ ~o.newTx

\* the three ways Add can go for a consideration that is not in the queue
Unaffordable(cn) == CacheGet(qCache, db, cn.by) < 1
Descends(cn) == IsParentDescendant(graph, pubKeyToString(cn.for), pubKeyToString(cn.by))

\* C17: Add of an id that is already queued returns false without an error and
\* leaves the queue and the cached imbalances as they are; Add rejects a
\* consideration whose sender's cached imbalance would go below zero or whose
\* beneficiary is a graph ancestor of its agent; an accepted consideration
\* becomes the last element of the queue.
C17_AddContract ==
    pc = "idle" =>
        \A cn \in CnPool :
            LET a == Add(cnQueue, qCache, db, graph, cn)
            IN  IF InQueue(cnQueue, ID(cn))
                THEN ~a.added /\ a.err = "" /\ a.q = cnQueue /\ a.cache = qCache
                ELSE IF Unaffordable(cn) \/ Descends(cn)
                THEN ~a.added /\ a.err # "" /\ a.q = cnQueue
                ELSE a.added /\ a.err = "" /\ a.q = Append(cnQueue, cn)

C17_Witness ==
    /\ pc = "idle"
    /\ \E cn \in CnPool : InQueue(cnQueue, ID(cn)) /\ ~Unaffordable(cn)
    /\ \E cn \in CnPool : ~InQueue(cnQueue, ID(cn)) /\ ~Unaffordable(cn) /\ Descends(cn)

\* the ids of a sequence of considerations, and the sequence without those ids
IDs(cns) == {ID(cns[i]) : i \in 1..Len(cns)}
Without(q, ids) == SelectSeq(q, LAMBDA c : ID(c) \notin ids)
NoIDTwice(q) == \A i, j \in 1..Len(q) : ID(q[i]) = ID(q[j]) => i = j

\* a step of the Processor that disconnected the view Head(req.disc)
Disconnected == pc = "reorg" /\ req.disc # <<>> /\ step'.err = "" /\ db' # db

\* C18: after a view is disconnected its considerations but the viewpoint are
\* the front of the queue in the order they had in the view, ahead of all that
\* was queued before, and no id is in the queue twice; when the step before, of
\* the same reorganisation, disconnected the view above, the considerations of
\* the lower view are ahead of those of the upper one.
C18_DisconnectedFirst ==
    [][Disconnected =>
        LET cns == Tail(views[Head(req.disc)].cns)
            n == Len(cns)
        IN  /\ Len(cnQueue') >= n
            /\ SubSeq(cnQueue', 1, n) = cns
            /\ SubSeq(cnQueue', n + 1, Len(cnQueue')) = Without(cnQueue, IDs(cns))
            /\ NoIDTwice(cnQueue')
            /\ (step.op = "disconnect" /\ step.err = "" /\ step.id \in DOMAIN views
                    /\ views[step.id].previous = Head(req.disc))
                => LET upper == Tail(views[step.id].cns)
                   IN  /\ Len(cnQueue') >= n + Len(upper)
                       /\ SubSeq(cnQueue', 1, n + Len(upper)) = cns \o upper]_vars

\* two views were disconnected, one consideration in each: the one of the lower
\* view is first in the queue
C18_Witness ==
    /\ pc \in {"reorg", "send"}
    /\ req.disc = <<>>
    /\ step.op = "disconnect" /\ step.err = ""
    /\ Len(cnQueue) = 2
    /\ Tail(views[step.id].cns) = <<cnQueue[1]>>
    /\ \E up \in DOMAIN views :
          views[up].previous = step.id /\ Tail(views[up].cns) = <<cnQueue[2]>>

----------------------------------------------------------------------------
(* The queue under more than one consideration of the same agent *)

MaxQueueViews == 2

\* the considerations of the pool and a second one from A to B
Second == LET c == [Spend("A", "B", "A") EXCEPT !.nonce = 1]
          IN  [c EXCEPT !.sig = SignatureOf("A", c)]
QueuePool == CnPool \cup {Second}
QueueBodies == {<<>>, <<Spend("A", "B", "A")>>}

QueueConsideration == \E cn \in QueuePool : ProcessConsideration(cn)

QueueView ==
    /\ pc = "idle"
    /\ nNew < MaxQueueViews
    /\ \E parentID \in Parents, body \in QueueBodies :
          LET id == NewID(nNew + 1)
              view == MakeView(id, parentID, body)
          IN  /\ snap' = Snapshot(db, Better(id, view, now))
              /\ processView(id, view, GenesisID, now)
    /\ sent' = <<>>
    /\ UNCHANGED <<graph, cnQueue, qCache, tipChan, idxEvent, subscribed, now, step>>

QueueNext ==
    \/ QueueView
    \/ ReorgStep
    \/ SendTipChange
    \/ QueueConsideration
    \/ IndexerRecv
    \/ IndexerIndex

QueueSpec == Init /\ [][QueueNext]_vars

\* the imbalances of the ledger, by key
LedgerImbalances(d) == [k \in Keys |-> GetPublicKeyImbalance(d, k)]

\* what stays of the considerations q[i], q[i + 1], ... when they are replayed in
\* order on the imbalances imb for a next view of the given height: a
\* consideration stays, and moves its unit from the agent to the beneficiary,
\* when it passes the checks of series, maturity and expiration, the agent has
\* a unit to give and the beneficiary is not a graph ancestor of the agent
RECURSIVE Replayed(_, _, _, _, _)
Replayed(q, i, imb, g, height) ==
    IF i > Len(q) THEN <<>>
    ELSE LET cn == q[i]
             stays == /\ checkConsiderationSeries(cn, height)
                      /\ IsMature(cn, height)
                      /\ ~IsExpired(cn, height)
                      /\ imb[cn.by] >= 1
                      /\ ~IsParentDescendant(g, pubKeyToString(cn.for), pubKeyToString(cn.by))
             imb1 == [imb EXCEPT ![cn.by] = @ - 1]
             imb2 == [imb1 EXCEPT ![cn.for] = @ + 1]
         IN  IF stays THEN <<cn>> \o Replayed(q, i + 1, imb2, g, height)
             ELSE Replayed(q, i + 1, imb, g, height)

\* a step of the Processor that connected the view Head(req.conn)
Connected == pc = "reorg" /\ req.disc = <<>> /\ req.conn # <<>> /\ step'.err = "" /\ db' # db

\* C19: when a view is connected, RemoveBatch(ids, h, more) takes the ids of the
\* view out of the queue and nothing else if more views follow; if none follows,
\* the queue becomes, in the order it had, what stays of the remaining
\* considerations when they are replayed on the imbalances of the ledger for
\* height h + 1.
C19_RemoveBatch ==
    [][Connected =>
        LET view == views[Head(req.conn)]
            remaining == Without(cnQueue, IDs(Tail(view.cns)))
        IN  IF Len(req.conn) > 1
            THEN cnQueue' = remaining
            ELSE cnQueue' = Replayed(remaining, 1, LedgerImbalances(db'), graph,
                                     view.height + 1)]_vars

\* the batches the Processor hands to AddBatch: the considerations, but the
\* viewpoint, of a view of the main branch
MainBatches ==
    {Tail(views[id].cns) : id \in {p \in Parents : GetBranchType(db, p) = "MAIN"}}

\* every consideration of q passes what reprocessQueue asks for at this height
Admissible(q, height) == Replayed(q, 1, LedgerImbalances(db), graph, height + 1) = q

\* the queue after AddBatch(cns) and then RemoveBatch(cns, height, false)
BackAndForth(cns, height) ==
    RemoveBatch(AddBatch(cnQueue, cns, Len(cns)), qCache, db, graph, IDs(cns), height, FALSE).q

----------------------------------------------------------------------------
(* Queue admission around the change of series: a ledger whose tip is near a
   multiple of VIEWS_UNTIL_NEW_SERIES, both keys holding one unit *)

MaxEra == 3          \* multiples of VIEWS_UNTIL_NEW_SERIES the tip is put around
SeriesSlack == 2     \* how far from the multiple
MaxSeries == 5       \* series of the considerations sent

SeriesHeights ==
    {h \in 0..(MaxEra * VIEWS_UNTIL_NEW_SERIES + SeriesSlack) :
        \E k \in 0..MaxEra : h >= k * VIEWS_UNTIL_NEW_SERIES - SeriesSlack
                             /\ h <= k * VIEWS_UNTIL_NEW_SERIES + SeriesSlack}

\* a signed consideration of the given series
SeriesCn(by, for, nonce, series) ==
    LET c == [Spend(by, for, by) EXCEPT !.nonce = nonce, !.series = series]
    IN  [c EXCEPT !.sig = SignatureOf(by, c)]

SeriesInit ==
    /\ \E t \in SeriesHeights :
          db = [EmptyDb EXCEPT !.tip = [set |-> TRUE, id |-> <<0, t + 1>>, height |-> t],
                               !.imb = [k \in Keys |-> 1]]
    /\ views = EmptyTable /\ whens = EmptyTable /\ graph = EmptyGraph
    /\ cnQueue = <<>> /\ qCache = EmptyTable
    /\ pc = "idle" /\ req = NoReq /\ result = NoResult /\ snap = NoSnap
    /\ tipChan = <<>> /\ idxEvent = NoEvent /\ subscribed = FALSE
    /\ now = 0 /\ nNew = 0 /\ step = NoStep /\ sent = <<>>

SeriesConsideration ==
    \E by \in Keys, for \in Keys, s \in 0..MaxSeries :
        ProcessConsideration(SeriesCn(by, for, 0, s))

SeriesSpec == SeriesInit /\ [][SeriesConsideration]_vars

\* a consideration of the given series that is valid otherwise and not queued:
\* from a key the cache reports a unit for
Funded == CHOOSE k \in Keys : CacheGet(qCache, db, k) >= 1
Probe(s) == SeriesCn(Funded, CHOOSE k \in Keys : k # Funded, 1, s)
Admitted(s) == processConsideration(cnQueue, qCache, db, graph, Probe(s)).newTx
Clamp(low) == IF low < 1 THEN 1 ELSE low

\* C21 as amended: with tip height t and high = (t + 1) / VIEWS_UNTIL_NEW_SERIES + 1,
\* the series of the view the consideration would go into, queue admission
\* accepts an otherwise valid consideration that is no viewpoint if and only if
\* its series is in [max(1, high - 1), high].
C21_SeriesOfNextView ==
    \A s \in 0..MaxSeries :
        LET high == ((db.tip.height + 1) \div VIEWS_UNTIL_NEW_SERIES) + 1
        IN  Admitted(s) <=> (s >= Clamp(high - 1) /\ s <= high)

\* C21: with tip height t and high = t / VIEWS_UNTIL_NEW_SERIES + 1, queue
\* admission accepts an otherwise valid consideration that is no viewpoint if
\* and only if its series is in [max(1, high - 1), high], also when t is a
\* multiple of VIEWS_UNTIL_NEW_SERIES or one below it.
C21_SeriesOfTip ==
    \A s \in 0..MaxSeries :
        LET high == (db.tip.height \div VIEWS_UNTIL_NEW_SERIES) + 1
        IN  Admitted(s) <=> (s >= Clamp(high - 1) /\ s <= high)

\* the tip is one below a multiple and a consideration of the series that
\* starts with the next view is in the queue
C21_Witness ==
    /\ db.tip.height = 2 * VIEWS_UNTIL_NEW_SERIES - 1
    /\ \E i \in 1..Len(cnQueue) : cnQueue[i].series = 3

----------------------------------------------------------------------------
(* ViewHeaderHasher: the header as JSON text in a buffer that is patched in
   place.  A byte is a one-character string; the fixed parts of the text are
   kept as one element each, the hex fields as two, the numbers digit by digit *)

MaxHeaderChanges == 4     \* Updates after the first one

hdrPrevious == <<"{\"previous\":\"">>
hdrHashListRoot == <<"\",\"hash_list_root\":\"">>
hdrTime == <<"\",\"time\":">>
hdrTarget == <<",\"target\":\"">>
hdrPointWork == <<"\",\"point_work\":\"">>
hdrNonce == <<"\",\"nonce\":">>
hdrHeight == <<",\"height\":">>
hdrConsiderationCount == <<",\"consideration_count\":">>
hdrEnd == <<"}">>

\* hex.Encode of an id (two characters stand for the sixty-four)
HexEncode(id) == <<id[1], id[2]>>

\* strconv.AppendInt(_, n, 10) for n >= 0
RECURSIVE AppendInt(_)
AppendInt(n) ==
    LET d == <<"0", "1", "2", "3", "4", "5", "6", "7", "8", "9">>[(n % 10) + 1]
    IN  IF n < 10 THEN <<d>> ELSE AppendInt(n \div 10) \o <<d>>

\* the values a renderer gives the fields that change; the others are fixed
HashListRoots == {<<"a", "b">>, <<"c", "d">>}
HeaderTimes == {7, 98, 123}
HeaderNonces == {9, 10}
HeaderCounts == {1, 10}
HasherHeaders ==
    [previous : {<<"e", "f">>}, hashListRoot : HashListRoots, time : HeaderTimes,
     target : {<<"0", "1">>}, pointWork : {<<"2", "3">>}, nonce : HeaderNonces,
     height : {100}, cnCount : HeaderCounts]

\* json.Marshal(header)
Marshal(hd) ==
    hdrPrevious \o HexEncode(hd.previous) \o hdrHashListRoot \o HexEncode(hd.hashListRoot)
    \o hdrTime \o AppendInt(hd.time) \o hdrTarget \o HexEncode(hd.target)
    \o hdrPointWork \o HexEncode(hd.pointWork) \o hdrNonce \o AppendInt(hd.nonce)
    \o hdrHeight \o AppendInt(hd.height) \o hdrConsiderationCount \o AppendInt(hd.cnCount)
    \o hdrEnd

\* sha3.Sum256, taken to be free of collisions
Sum256(bytes) == <<"sha3", bytes>>

\* ViewHeader.ID
HeaderID(hd) == Sum256(Marshal(hd))

\* NewViewHeaderHasher: the buffer has room for the longest header
BufLen == 9 + 4 * 2 + 3 * 3 + 2
NewViewHeaderHasher ==
    [initialized |-> FALSE, buffer |-> [i \in 1..BufLen |-> " "], bufLen |-> 0,
     previousHashListRoot |-> <<"", "">>, previousTime |-> 0, previousNonce |-> 0,
     previousConsiderationCount |-> 0,
     hashListRootOffset |-> 0, timeOffset |-> 0, nonceOffset |-> 0,
     considerationCountOffset |-> 0, timeLen |-> 0, nonceLen |-> 0, cnCountLen |-> 0]

\* copy(buffer[at:], bytes), and append to buffer[:at] within its capacity
WriteAt(buffer, at, bytes) ==
    [i \in 1..Len(buffer) |->
        IF i > at /\ i <= at + Len(bytes) THEN bytes[i - at] ELSE buffer[i]]

\* ViewHeaderHasher.initBuffer
initBuffer(h, hd) ==
    LET p1 == hdrPrevious \o HexEncode(hd.previous) \o hdrHashListRoot
        p2 == p1 \o HexEncode(hd.hashListRoot) \o hdrTime
        p3 == p2 \o AppendInt(hd.time) \o hdrTarget \o HexEncode(hd.target)
                 \o hdrPointWork \o HexEncode(hd.pointWork) \o hdrNonce
        p4 == p3 \o AppendInt(hd.nonce) \o hdrHeight \o AppendInt(hd.height)
                 \o hdrConsiderationCount
        p5 == p4 \o AppendInt(hd.cnCount) \o hdrEnd
    IN  [initialized |-> TRUE, buffer |-> WriteAt(h.buffer, 0, p5), bufLen |-> Len(p5),
         previousHashListRoot |-> hd.hashListRoot, previousTime |-> hd.time,
         previousNonce |-> hd.nonce, previousConsiderationCount |-> hd.cnCount,
         hashListRootOffset |-> Len(p1), timeOffset |-> Len(p2), nonceOffset |-> Len(p3),
         considerationCountOffset |-> Len(p4), timeLen |-> Len(AppendInt(hd.time)),
         nonceLen |-> Len(AppendInt(hd.nonce)), cnCountLen |-> Len(AppendInt(hd.cnCount))]

\* an Update that never moves what follows a number whose text changed length
Patch_inplace(h, hd) ==
    IF ~h.initialized THEN initBuffer(h, hd)
    ELSE LET b1 == WriteAt(h.buffer, h.hashListRootOffset, HexEncode(hd.hashListRoot))
             b2 == WriteAt(b1, h.timeOffset, AppendInt(hd.time))
             b3 == WriteAt(b2, h.nonceOffset, AppendInt(hd.nonce))
             b4 == WriteAt(b3, h.considerationCountOffset, AppendInt(hd.cnCount))
         IN  [h EXCEPT !.buffer = b4]

\* ViewHeaderHasher.Update up to the hashing: the hasher with its buffer patched
Patch(h, hd) ==
    IF ~h.initialized THEN initBuffer(h, hd)
    ELSE
    LET b1 == IF h.previousHashListRoot # hd.hashListRoot
              THEN WriteAt(h.buffer, h.hashListRootOffset, HexEncode(hd.hashListRoot))
              ELSE h.buffer
        \* time
        inTime == h.previousTime # hd.time
        time == AppendInt(hd.time)
        offset1 == IF inTime THEN Len(time) - h.timeLen ELSE 0
        b2 == IF ~inTime THEN b1
              ELSE IF offset1 = 0 THEN WriteAt(b1, h.timeOffset, time)
              ELSE WriteAt(b1, h.timeOffset,
                           time \o hdrTarget \o HexEncode(hd.target) \o hdrPointWork
                                \o HexEncode(hd.pointWork) \o hdrNonce)
        \* nonce
        inNonce == offset1 # 0 \/ h.previousNonce # hd.nonce
        nonce == AppendInt(hd.nonce)
        nonceOffset == IF inNonce THEN h.nonceOffset + offset1 ELSE h.nonceOffset
        offset2 == IF inNonce THEN offset1 + Len(nonce) - h.nonceLen ELSE offset1
        b3 == IF ~inNonce THEN b2
              ELSE IF offset2 = 0 THEN WriteAt(b2, nonceOffset, nonce)
              ELSE WriteAt(b2, nonceOffset,
                           nonce \o hdrHeight \o AppendInt(hd.height) \o hdrConsiderationCount)
        \* consideration_count
        inCount == offset2 # 0 \/ h.previousConsiderationCount # hd.cnCount
        count == AppendInt(hd.cnCount)
        countOffset == IF inCount THEN h.considerationCountOffset + offset2
                       ELSE h.considerationCountOffset
        offset3 == IF inCount THEN offset2 + Len(count) - h.cnCountLen ELSE offset2
        b4 == IF ~inCount THEN b3
              ELSE IF offset3 = 0 THEN WriteAt(b3, countOffset, count)
              ELSE WriteAt(b3, countOffset, count \o hdrEnd)
    IN  [h EXCEPT !.buffer = b4, !.bufLen = h.bufLen + offset3,
                  !.previousHashListRoot = hd.hashListRoot,
                  !.previousTime = hd.time,
                  !.previousNonce = IF inNonce THEN hd.nonce ELSE @,
                  !.previousConsiderationCount = IF inCount THEN hd.cnCount ELSE @,
                  !.timeLen = IF inTime THEN Len(time) ELSE @,
                  !.nonceOffset = nonceOffset,
                  !.nonceLen = IF inNonce THEN Len(nonce) ELSE @,
                  !.considerationCountOffset = countOffset,
                  !.cnCountLen = IF inCount THEN Len(count) ELSE @]

\* the id Update returns: the hash of buffer[:bufLen]
HashOf(h) == Sum256(SubSeq(h.buffer, 1, h.bufLen))

HasherInit ==
    /\ db = EmptyDb /\ views = EmptyTable /\ whens = EmptyTable /\ graph = EmptyGraph
    /\ cnQueue = <<>> /\ qCache = EmptyTable /\ snap = NoSnap /\ tipChan = <<>>
    /\ idxEvent = NoEvent /\ subscribed = FALSE /\ now = 0 /\ step = NoStep /\ sent = <<>>
    /\ pc = "render"
    /\ nNew = 0
    /\ req \in HasherHeaders
    /\ result = Patch(NewViewHeaderHasher, req)

\* the renderer changes the header and asks for its id: ViewHeader.IDFast
IDFast ==
    /\ pc = "render"
    /\ nNew < MaxHeaderChanges
    /\ \E hd \in HasherHeaders :
          /\ req' = hd
          /\ result' = Patch(result, hd)
    /\ nNew' = nNew + 1
    /\ UNCHANGED <<db, views, whens, graph, cnQueue, qCache, pc, snap, tipChan, idxEvent,
                   subscribed, now, step, sent>>

HasherSpec == HasherInit /\ [][IDFast]_vars

\* C22: after every change of the time, the nonce, the consideration count and
\* the hash list root of a header, also one that makes the text of a number
\* longer or shorter, the id of the incremental hasher is the id got by
\* serialising the whole header again and hashing that.
C22_IncrementalIsNaive ==
    pc = "render" => HashOf(result) = HeaderID(req)

\* the text of the header has been longer than it is now, and the time, the
\* nonce and the count did not all keep their lengths
C22_Witness ==
    /\ pc = "render"
    /\ nNew >= 2
    /\ result.buffer[result.bufLen + 1] = "}"
    /\ result.timeLen = 3 /\ result.nonceLen = 1 /\ result.cnCountLen = 1

----------------------------------------------------------------------------
(* Indexer.indexConsiderations in full: recipients that are focal points.  A
   recipient is written without the padding that padTo44Characters adds; weights
   are counted in twelfths, so that the halves, quarters and sixths of the code
   are whole numbers (the code adds them as float64) *)

One == 12                     \* incrementBy = 1
MaxIndexed == 2               \* views connected and not yet disconnected
MaxConnects == 3              \* views connected in all

FullCode == "6FG22222+222"                    \* a full Open Location Code
FocalKey == "6FG22222+222/201/window"         \* a focal point named by its code
IndexKey == "1/201/window"                    \* the same, named by its place in Indices

\* strings.Split(strings.TrimRight(pubKey, "/0="), "/")
SplitKey(pubKey) ==
    IF pubKey = FocalKey THEN <<FullCode, "201", "window">>
    ELSE IF pubKey = IndexKey THEN <<"1", "201", "window">>
    ELSE <<pubKey>>

\* olc.CheckFull(s) == nil
CheckFull(s) == s = FullCode

\* strconv.Atoi
Atoi(s) == IF s = "1" THEN [ok |-> TRUE, n |-> 1] ELSE [ok |-> FALSE, n |-> 0]

\* generateStringsSlice(strings.Split(locale, "+")[0])
Catchments(locale) ==
    IF locale \in {FullCode, FocalKey} THEN <<"6FG22222", "6FG222", "6FG2", "6F">>
    ELSE <<locale>>

\* inflateNodes (none of the notes here is made of "+" only)
inflateNodes(pubKey) ==
    LET splitPK == SplitKey(pubKey)
    IN  IF Len(splitPK) < 2
        THEN [ok |-> FALSE, locale |-> "", nodes |-> <<pubKey>>, notes |-> pubKey]
        ELSE [ok |-> TRUE, locale |-> splitPK[1],
              nodes |-> SubSeq(splitPK, 1, Len(splitPK) - 1), notes |-> splitPK[Len(splitPK)]]

\* localeFromPubKey
localeFromPubKey(pubKey, focalPoints) ==
    LET splitTrimmed == SplitKey(pubKey)
        localeNotation == splitTrimmed[1]
        localeIndex == Atoi(localeNotation)
        no == [ok |-> FALSE, locale |-> "", catchments |-> <<>>]
    IN  IF CheckFull(localeNotation)
            THEN [ok |-> TRUE, locale |-> localeNotation,
                  catchments |-> Catchments(localeNotation)]
        ELSE IF ~localeIndex.ok THEN no
        ELSE IF Len(focalPoints) < localeIndex.n + 1 THEN no
        ELSE IF Len(splitTrimmed) < 2 THEN no
        ELSE [ok |-> TRUE, locale |-> focalPoints[localeIndex.n + 1],
              catchments |-> Catchments(focalPoints[localeIndex.n + 1])]

\* DiminishingOrders from the power 10^i on, last being the last value appended
RECURSIVE OrdersFrom(_, _, _)
OrdersFrom(n, power, last) ==
    IF power > 10 * n THEN <<>>
    ELSE LET rounded == n - (n % power)
         IN  IF rounded # last THEN <<rounded>> \o OrdersFrom(n, power * 10, rounded)
             ELSE OrdersFrom(n, power * 10, last)
DiminishingOrders(n) == IF n = 0 THEN <<0>> ELSE <<n>> \o OrdersFrom(n, 10, n)

\* the name of a height as a node: strconv.FormatInt(h, 10) + "+", the root for 0
OrderNode(h, plus) == IF h = 0 /\ ~plus THEN RootKey ELSE ToString(h) \o "+"

\* OrderedHashSet.Add and Remove
HashSetAdd(values, value) ==
    IF \E i \in 1..Len(values) : values[i] = value THEN values ELSE Append(values, value)
HashSetRemove(values, value) == SelectSeq(values, LAMBDA v : v # value)

\* the weight of an edge, 0 when the graph has none
Weight(g, src, tgt) == IF <<src, tgt>> \in DOMAIN g.edges THEN g.edges[<<src, tgt>>] ELSE 0

RECURSIVE LinkAll(_, _, _)
LinkAll(g, links, i) ==
    IF i > Len(links) THEN g
    ELSE LET g2 == Link(g, links[i][1], links[i][2], links[i][3])
         IN  IF g2 = g2 THEN LinkAll(g2, links, i + 1) ELSE g

\* the links of "Build graph" for a recipient whose locale was found
BuildGraph(conFor, height, inflated, found, incrementBy) ==
    LET weight == (incrementBy \div 2) \div (Len(inflated.nodes) + 1)
        n == Len(inflated.nodes)
        reversedNodes == [i \in 1..n |-> inflated.nodes[n + 1 - i]]
        perNode(i) ==
            <<<<conFor, reversedNodes[i], weight>>>>
            \o (IF i = n THEN <<<<found.locale, found.catchments[1], weight>>>> ELSE <<>>)
            \o (IF i + 1 <= n
                THEN <<<<reversedNodes[i],
                         IF i + 1 = n THEN found.locale ELSE reversedNodes[i + 1], weight>>>>
                ELSE <<>>)
        RECURSIVE nodeLinks(_)
        nodeLinks(i) == IF i > n THEN <<>> ELSE perNode(i) \o nodeLinks(i + 1)
        c == found.catchments
        catchLinks == [i \in 1..Len(c) |->
                          IF i < Len(c) THEN <<c[i], c[i + 1], weight>>
                          ELSE <<c[i], RootKey, weight>>]
        orders == DiminishingOrders(height)
        orderLinks == [j \in 1..(Len(orders) - 1) |->
                          <<OrderNode(orders[j], TRUE), OrderNode(orders[j + 1], orders[j + 1] # 0),
                            incrementBy \div 2>>]
    IN  <<<<conFor, OrderNode(height, TRUE), incrementBy \div 2>>,
          <<conFor, "1970/01/01+", incrementBy \div 4>>,
          <<"1970/01/01+", "1970/01+", incrementBy \div 4>>,
          <<"1970/01+", "1970+", incrementBy \div 4>>,
          <<"1970+", RootKey, incrementBy \div 4>>,
          <<conFor, inflated.notes, weight>>,
          <<inflated.notes, reversedNodes[1], weight>>>>
        \o nodeLinks(1) \o catchLinks \o orderLinks

\* the body of the loop of Indexer.indexConsiderations for one consideration:
\* st is the graph with Indexer.Indices
indexOne(st, con, height, increment) ==
    LET conFor == pubKeyToString(con.for)
        conBy == pubKeyToString(con.by)
        incrementBy == IF increment THEN One ELSE 0 - One
        inflated == inflateNodes(conFor)
        indices ==
            IF con.by = NoKey /\ inflated.ok /\ CheckFull(inflated.locale)
            THEN IF increment THEN HashSetAdd(st.indices, conFor)
                 ELSE IF InIndex(st.g, conFor) /\ Weight(st.g, st.g.index[1], conFor) < 2 * One
                      THEN HashSetRemove(st.indices, conFor)
                      ELSE st.indices
            ELSE st.indices
        g1 == Link(st.g, conBy, conFor, incrementBy)
        found == localeFromPubKey(conFor, indices)
    IN  [g |-> IF found.ok /\ inflated.ok
               THEN LinkAll(g1, BuildGraph(conFor, height, inflated, found, incrementBy), 1)
               ELSE g1,
         indices |-> indices]

RECURSIVE indexView(_, _, _, _)
indexView(st, view, increment, c) ==
    IF c > Len(view.cns) THEN st
    ELSE LET st2 == indexOne(st, view.cns[c], view.height, increment)
         IN  IF st2 = st2 THEN indexView(st2, view, increment, c + 1) ELSE st

\* the views the Indexer is told of: a viewpoint for a key or for the focal
\* point, and at most one consideration of A after it
IndexBodies == {<<>>} \cup {<<Spend("A", for, "A")>> : for \in {"B", FocalKey, IndexKey}}
IndexedView(for, body, height) ==
    [height |-> height, cns |-> <<Viewpoint(for, 0, height)>> \o body]

\* NewIndexer, before any view; req is the stack of what was indexed, each view with
\* the graph before it, result is Indexer.Indices
IndexInit ==
    /\ db = EmptyDb /\ views = EmptyTable /\ whens = EmptyTable
    /\ cnQueue = <<>> /\ qCache = EmptyTable /\ tipChan = <<>>
    /\ idxEvent = NoEvent /\ subscribed = TRUE /\ now = 0 /\ nNew = 0 /\ sent = <<>>
    /\ pc = "index"
    /\ graph = EmptyGraph
    /\ result = <<RootKey>>
    /\ req = <<>>
    /\ snap = EmptyGraph
    /\ step = "none"

\* a TipChange with Connect = true reaches the Indexer
IndexConnect ==
    /\ pc = "index"
    /\ Len(req) < MaxIndexed
    /\ nNew < MaxConnects
    /\ nNew' = nNew + 1
    /\ \E for \in {"A", FocalKey}, body \in IndexBodies :
          LET view == IndexedView(for, body, VIEWPOINT_MATURITY + Len(req))
              st == indexView([g |-> graph, indices |-> result], view, TRUE, 1)
          IN  /\ graph' = st.g
              /\ result' = st.indices
              /\ req' = Append(req, [view |-> view, before |-> graph])
    /\ step' = "connect"
    /\ UNCHANGED <<db, views, whens, cnQueue, qCache, pc, snap, tipChan, idxEvent,
                   subscribed, now, sent>>

\* a TipChange with Connect = false: the view at the tip
IndexDisconnect ==
    /\ pc = "index"
    /\ req # <<>>
    /\ LET top == req[Len(req)]
           st == indexView([g |-> graph, indices |-> result], top.view, FALSE, 1)
       IN  /\ graph' = st.g
           /\ result' = st.indices
           /\ snap' = top.before
    /\ req' = SubSeq(req, 1, Len(req) - 1)
    /\ step' = "disconnect"
    /\ UNCHANGED <<db, views, whens, cnQueue, qCache, pc, tipChan, idxEvent,
                   subscribed, now, nNew, sent>>

IndexNext == IndexConnect \/ IndexDisconnect

IndexSpec == IndexInit /\ [][IndexNext]_vars

\* C23: when a view was indexed as connected and is then indexed as
\* disconnected, every edge of the graph has the weight it had before the
\* connect, also for views of several considerations and for recipients found
\* through the Indexer's table of focal points.
C23_ConnectDisconnectGraph ==
    step = "disconnect" =>
        \A e \in DOMAIN graph.edges \cup DOMAIN snap.edges :
            Weight(graph, e[1], e[2]) = Weight(snap, e[1], e[2])

----------------------------------------------------------------------------
(* Graph.IsParentDescendant on graphs made by Link, the root linked first *)

MaxLinks == 4
GraphNames == {RootKey, "A", "B", "C"}

GraphInit ==
    /\ db = EmptyDb /\ views = EmptyTable /\ whens = EmptyTable
    /\ cnQueue = <<>> /\ qCache = EmptyTable /\ tipChan = <<>> /\ snap = NoSnap
    /\ idxEvent = NoEvent /\ subscribed = TRUE /\ now = 0 /\ nNew = 0 /\ sent = <<>>
    /\ pc = "link" /\ req = NoReq /\ result = NoResult /\ step = NoStep
    /\ graph = Link(EmptyGraph, RootKey, "A", 1)

\* Graph.Link as the Indexer calls it: weight 1 for a connect, -1 for a disconnect
CallLink ==
    /\ pc = "link"
    /\ nNew < MaxLinks
    /\ \E src \in GraphNames, w \in {1, 0 - 1} :
          \E tgt \in GraphNames \ {src} : graph' = Link(graph, src, tgt, w)
    /\ nNew' = nNew + 1
    /\ UNCHANGED <<db, views, whens, cnQueue, qCache, pc, req, result, snap, tipChan,
                   idxEvent, subscribed, now, step, sent>>

GraphSpec == GraphInit /\ [][CallLink]_vars

\* the nodes but node 0, and the walks over them along the edges the graph
\* holds (an edge stays in the graph when its weight is back at 0)
Inner(g) == {g.index[i] : i \in 2..Len(g.index)}
IsWalk(g, w) ==
    /\ \A i \in 1..Len(w) : w[i] \in Inner(g)
    /\ \A i \in 1..(Len(w) - 1) : <<w[i], w[i + 1]>> \in DOMAIN g.edges
Walks(g) == UNION {[1..k -> Inner(g)] : k \in 1..Cardinality(Inner(g))}
Reaches(g, p, d) == \E w \in Walks(g) : IsWalk(g, w) /\ w[1] = p /\ w[Len(w)] = d

\* C24: IsParentDescendant(p, d) is true if and only if d can be reached from
\* the node of p along edges of the graph on a path that is never in node 0;
\* it is false when there is no such path, and it ends on graphs with cycles.
C24_ReachableOffRoot ==
    \A p \in GraphNames \cup {"Z"}, d \in GraphNames \cup {"Z"} :
        IsParentDescendant(graph, p, d) <=> Reaches(graph, p, d)

\* A and B are on a cycle, and C can be reached from A only through node 0
C24_Witness ==
    /\ {<<"A", "B">>, <<"B", "A">>, <<"A", RootKey>>, <<RootKey, "C">>} \subseteq DOMAIN graph.edges
    /\ IsParentDescendant(graph, "A", "B")
    /\ ~IsParentDescendant(graph, "A", "C")

----------------------------------------------------------------------------
(* The two checks of a view's time: against the clock, against its ancestors *)

MaxChain == 15          \* views of the chain the median is taken over
MaxFutureChain == 4     \* views of the chain rendered near the limit of the clock
MaxClock == 3           \* ticks of the clock

ChainID(h) == <<2, h + 1>>
ChainTop == Cardinality(DOMAIN views) - 1

TimedInit ==
    /\ db = EmptyDb /\ whens = EmptyTable /\ graph = EmptyGraph
    /\ cnQueue = <<>> /\ qCache = EmptyTable /\ tipChan = <<>> /\ snap = NoSnap
    /\ idxEvent = NoEvent /\ subscribed = TRUE /\ now = 0 /\ nNew = 0 /\ sent = <<>>
    /\ pc = "timed" /\ req = NoReq /\ result = NoResult /\ step = NoStep
    /\ views = Put(EmptyTable, ChainID(0),
                   [previous |-> ZeroID, height |-> 0, time |-> 1,
                    pointWork |-> SetBigInt(1), cns |-> <<Viewpoint("A", 1, 0)>>])

\* the view with time t on top of the chain
TimedView(t) ==
    [previous |-> ChainID(ChainTop), height |-> ChainTop + 1, time |-> t,
     pointWork |-> computePointWork(views[ChainID(ChainTop)].pointWork),
     cns |-> <<Viewpoint("A", ChainTop + 2, ChainTop + 1)>>]

\* the times of the ancestors a view on top of the chain is measured against,
\* by height, and their median: the element of rank n / 2 counted from 0
RecentHeights == {h \in 0..ChainTop : h > ChainTop - NUM_VIEWS_FOR_MEDIAN_TMESTAMP}
TimeAt(h) == views[ChainID(h)].time
MedianOfRecent ==
    CHOOSE v \in {TimeAt(h) : h \in RecentHeights} :
        /\ Cardinality({h \in RecentHeights : TimeAt(h) < v}) <= Cardinality(RecentHeights) \div 2
        /\ Cardinality({h \in RecentHeights : TimeAt(h) <= v}) > Cardinality(RecentHeights) \div 2

\* processView, checkView and acceptView, of a view on top of the chain, up to
\* viewStore.Store
RenderTimed(times, maxChain) ==
    /\ pc = "timed"
    /\ ChainTop + 1 < maxChain
    /\ \E t \in times :
          LET view == TimedView(t)
              cv == checkView(view, now)
              av == acceptViewChecks(views, cnQueue, view)
              err == IF cv # "" THEN cv ELSE av.err
          IN  /\ views' = IF err = "" THEN Put(views, ChainID(ChainTop + 1), view) ELSE views
              /\ result' = [op |-> "timed", time |-> t, err |-> err, now |-> now,
                            median |-> MedianOfRecent]
    /\ UNCHANGED <<db, whens, graph, cnQueue, qCache, pc, req, snap, tipChan, idxEvent,
                   subscribed, now, nNew, step, sent>>

\* the wall clock advances between two requests
ClockTick ==
    /\ pc = "timed"
    /\ now < MaxClock
    /\ now' = now + 1
    /\ UNCHANGED <<db, views, whens, graph, cnQueue, qCache, pc, req, result, snap, tipChan,
                   idxEvent, subscribed, nNew, step, sent>>

MedianSpec ==
    TimedInit /\ [][RenderTimed((MedianOfRecent - 1)..(MedianOfRecent + 2), MaxChain)]_vars

NearLimit == (now + MAX_FUTURE_SECONDS - 1)..(now + MAX_FUTURE_SECONDS + 1)
FutureNext == RenderTimed(NearLimit, MaxFutureChain) \/ ClockTick
FutureSpec == TimedInit /\ [][FutureNext]_vars

\* C25: a view is accepted only if its time is strictly greater than the median of
\* the times of its 11 most recent ancestors (of all of them when there are fewer
\* than 11); a view whose time equals the median is rejected.
C25_AfterMedian ==
    result.op = "timed" =>
        /\ result.err = "" => result.time > result.median
        /\ result.time = result.median => result.err = "timestamp too early"

\* a view with time median + 1 was accepted on 13 ancestors, the median of all of
\* which is less than the median of the 11 most recent
C25_Witness ==
    /\ result.op = "timed" /\ result.err = "" /\ result.time = result.median + 1
    /\ ChainTop = NUM_VIEWS_FOR_MEDIAN_TMESTAMP + 2
    /\ computeMedianTimestamp_all(views, ChainID(ChainTop - 1)) < result.median

\* C26: a view is accepted only if its time is not greater than now + 7200; a view
\* whose time equals now + 7200 passes the check of the clock, a view with time
\* now + 7201 is rejected.
C26_NotAfterLimit ==
    result.op = "timed" =>
        /\ result.err = "" => result.time <= result.now + MAX_FUTURE_SECONDS
        /\ result.err = "too far in the future"
              <=> result.time > result.now + MAX_FUTURE_SECONDS

\* C26, as stated: a view is accepted only if its time is strictly less than
\* now + 7200; a view whose time equals now + 7200 is rejected.
C26_BeforeLimit ==
    result.op = "timed" /\ result.err = "" => result.time < result.now + MAX_FUTURE_SECONDS

\* a view whose time is now + 7200 was accepted, after the clock had advanced
C26_Witness ==
    /\ result.op = "timed" /\ result.err = ""
    /\ result.now > 0 /\ result.time = result.now + MAX_FUTURE_SECONDS

----------------------------------------------------------------------------
(* computeMaxConsiderationsPerView over the heights *)

MaxHeight == 1852035    \* the heights are walked one by one up to here
MaxDoublings == 64      \* boundaries k * 105000, k < MaxDoublings, are looked at
MaxPast == 2            \* heights walked past a boundary above MaxHeight

Boundaries ==
    {k * VIEWS_UNTIL_CONSIDERATIONS_PER_VIEW_DOUBLING : k \in 0..(MaxDoublings - 1)}

\* req is the height, result the maximum at it, snap the maximum one height below
HeightInit ==
    /\ db = EmptyDb /\ views = EmptyTable /\ whens = EmptyTable /\ graph = EmptyGraph
    /\ cnQueue = <<>> /\ qCache = EmptyTable /\ tipChan = <<>>
    /\ idxEvent = NoEvent /\ subscribed = TRUE /\ now = 0 /\ nNew = 0 /\ sent = <<>>
    /\ pc = "height" /\ step = NoStep
    /\ req \in Boundaries
    /\ result = computeMaxConsiderationsPerView(req)
    /\ snap = IF req = 0 THEN 0 ELSE computeMaxConsiderationsPerView(req - 1)

NextHeight ==
    /\ pc = "height"
    /\ \/ req < MaxHeight
       \/ req % VIEWS_UNTIL_CONSIDERATIONS_PER_VIEW_DOUBLING < MaxPast
    /\ req' = req + 1
    /\ result' = computeMaxConsiderationsPerView(req + 1)
    /\ snap' = result
    /\ UNCHANGED <<db, views, whens, graph, cnQueue, qCache, pc, tipChan, idxEvent,
                   subscribed, now, nNew, step, sent>>

HeightSpec == HeightInit /\ [][NextHeight]_vars

IsBoundary(h) ==
    /\ h > 0
    /\ h < MAX_CONSIDERATIONS_PER_VIEW_EXCEEDED_AT_HEIGHT
    /\ h % VIEWS_UNTIL_CONSIDERATIONS_PER_VIEW_DOUBLING = 0

\* C27: computeMaxConsiderationsPerView(0) is 10000; the result does not decrease
\* with the height; at each doubling boundary below the cap the result is exactly
\* twice the result at the boundary before it; the result is
\* MAX_CONSIDERATIONS_PER_VIEW at every height from 1852032 on and less below.
C27_DoublesPerPeriod ==
    /\ req = 0 => result = INITIAL_MAX_CONSIDERATIONS_PER_VIEW
    /\ req > 0 => snap <= result
    /\ IsBoundary(req) =>
          result = 2 * computeMaxConsiderationsPerView(
                           req - VIEWS_UNTIL_CONSIDERATIONS_PER_VIEW_DOUBLING)
    /\ req >= MAX_CONSIDERATIONS_PER_VIEW_EXCEEDED_AT_HEIGHT
          => result = MAX_CONSIDERATIONS_PER_VIEW
    /\ req < MAX_CONSIDERATIONS_PER_VIEW_EXCEEDED_AT_HEIGHT
          => result < MAX_CONSIDERATIONS_PER_VIEW

\* C27, as stated: at each doubling boundary the result is exactly twice the
\* result at the height just below it.
C27_DoublesAtBoundary ==
    IsBoundary(req) => result % 2 = 0 /\ result \div 2 = snap

\* the last height below the cap, reached from the boundary before it
C27_Witness ==
    /\ req = MAX_CONSIDERATIONS_PER_VIEW_EXCEEDED_AT_HEIGHT - 1
    /\ snap < result /\ result < MAX_CONSIDERATIONS_PER_VIEW

----------------------------------------------------------------------------
(* LedgerDisk.GetPublicKeyImbalanceAt *)

\* the keys of the index of pk from its first up to the requested height, the
\* viewpoints (index 0) above the height of the tip less VIEWPOINT_MATURITY left
\* out; the loop adds 1 for each where pk is the beneficiary, else takes 1
CountedAt(d, pk, height) ==
    {k \in d.pkIdx : /\ k[1] = pk
                     /\ k[2] < height + 1
                     /\ ~(k[3] = 0 /\ k[2] > d.tip.height - VIEWPOINT_MATURITY)}
IndexedCn(d, vs, k) == vs[GetViewIDForHeight(d, k[2])].cns[k[3] + 1]
GetPublicKeyImbalanceAt(d, vs, pk, height) ==
    LET counted == CountedAt(d, pk, height)
    IN  IF \E k \in counted : ~HasViewAtHeight(d, k[2])
        THEN [err |-> "no view found", imbalance |-> 0]
        ELSE [err |-> "",
              imbalance |-> Cardinality({k \in counted : IndexedCn(d, vs, k).for = pk})
                          - Cardinality({k \in counted : IndexedCn(d, vs, k).for # pk})]

\* the imbalance pk had when the view of the main branch at the height was the
\* tip: the considerations of the main views up to the height, and the viewpoints
\* of those at least VIEWPOINT_MATURITY below it
MainAt(h) == CHOOSE id \in MainSet(db) : views[id].height = h
Placed(upTo) ==
    {<<h, i>> \in (0..upTo) \X (1..(MaxViewCns + 1)) : i <= Len(views[MainAt(h)].cns)}
CnAt(p) == views[MainAt(p[1])].cns[p[2]]
ImbalanceWhenTip(pk, height) ==
      Cardinality({p \in Placed(height - VIEWPOINT_MATURITY) :
                      IsViewpoint(CnAt(p)) /\ CnAt(p).for = pk})
    + Cardinality({p \in Placed(height) : ~IsViewpoint(CnAt(p)) /\ CnAt(p).for = pk})
    - Cardinality({p \in Placed(height) : ~IsViewpoint(CnAt(p)) /\ CnAt(p).by = pk})

\* C28: without pruning, GetPublicKeyImbalanceAt(pk, h) for 0 <= h <= the height
\* of the tip is the imbalance pk had when the main view at height h was the tip,
\* with exactly the viewpoints mature at h counted; at the height of the tip it
\* is GetPublicKeyImbalance(pk).
C28_ImbalanceAtHeight ==
    pc = "idle" /\ HasTip(db) =>
        \A pk \in Keys :
            /\ \A h \in 0..db.tip.height :
                  GetPublicKeyImbalanceAt(db, views, pk, h)
                      = [err |-> "", imbalance |-> ImbalanceWhenTip(pk, h)]
            /\ GetPublicKeyImbalanceAt(db, views, pk, db.tip.height).imbalance
                  = GetPublicKeyImbalance(db, pk)

----------------------------------------------------------------------------
(* The main branch and the index of heights *)

\* S is the view and its ancestors back to genesis: it holds the view and, with
\* every view but genesis, its previous one, and it has as many views as there
\* are heights up to the view's (the height of a stored view is 1 more than its
\* previous view's)
IsChainOf(S, id) ==
    /\ id \in S
    /\ S \subseteq DOMAIN views
    /\ \A a \in S : views[a].height = 0 \/ views[a].previous \in S
    /\ Cardinality(S) = views[id].height + 1

\* C30: after every completed ProcessView request the views marked MAIN are
\* exactly the tip and its ancestors back to genesis, the index of heights maps
\* each height from 0 to the height of the tip to the MAIN view at that height,
\* and it has no entry above the height of the tip.
C30_MainIsTheChainOfTheTip ==
    pc = "idle" /\ result.op = "view" =>
        /\ HasTip(db)
        /\ IsChainOf(MainSet(db), db.tip.id)
        /\ DOMAIN db.heightIdx = 0..db.tip.height
        /\ \A h \in 0..db.tip.height :
              /\ db.heightIdx[h] \in MainSet(db)
              /\ views[db.heightIdx[h]].height = h

----------------------------------------------------------------------------
(* LedgerDisk with the prune option *)

MaxPruneRun == 106      \* views connected on top of the synced chain
MaxDisconnects == 3     \* views disconnected in a run

\* the last height at which a ledger that prunes has pruned nothing yet
PruneFloor == 2 * VIEWS_UNTIL_NEW_SERIES - 2
MaxPruneTip == PruneFloor + MaxPruneRun

\* the chain: a viewpoint for A in every view; the first views in which A holds
\* something carry a consideration, and so does one of the last
PruneID(h) == <<3, h>>
PruneBody(h) ==
    IF h \in {VIEWPOINT_MATURITY, VIEWPOINT_MATURITY + 2,
              2 * VIEWS_UNTIL_NEW_SERIES + VIEWPOINT_MATURITY + 1}
        THEN <<SeriesCn("A", "B", h, (h \div VIEWS_UNTIL_NEW_SERIES) + 1)>>
    ELSE IF h = VIEWPOINT_MATURITY + 1
        THEN <<SeriesCn("B", "A", h, (h \div VIEWS_UNTIL_NEW_SERIES) + 1)>>
    ELSE <<>>
PruneView(h) ==
    [previous |-> IF h = 0 THEN ZeroID ELSE PruneID(h - 1), height |-> h, time |-> h,
     pointWork |-> SetBigInt(h + 1), cns |-> <<Viewpoint("A", h + 1, h)>> \o PruneBody(h)]

\* the places <<height, index>> of the considerations of the chain from height
\* low to height high, the consideration at a place and the keys it is indexed by
PrunePlaces(low, high) ==
    {p \in (low..high) \X (0..1) : low >= 0 /\ p[2] < Len(PruneView(p[1]).cns)}
PruneCn(p) == PruneView(p[1]).cns[p[2] + 1]
PubKeyKeys(places) ==
    {<<PruneCn(p).for, p[1], p[2]>> : p \in places}
        \cup {<<PruneCn(p).by, p[1], p[2]>> : p \in {x \in places : ~IsViewpoint(PruneCn(x))}}
PruneHeld(pk, tipHeight) ==
      Cardinality({p \in PrunePlaces(0, tipHeight - VIEWPOINT_MATURITY) :
                      p[2] = 0 /\ PruneCn(p).for = pk})
    + Cardinality({p \in PrunePlaces(0, tipHeight) : p[2] > 0 /\ PruneCn(p).for = pk})
    - Cardinality({p \in PrunePlaces(0, tipHeight) : p[2] > 0 /\ PruneCn(p).by = pk})

\* the place of a consideration of the chain, from the nonce in its id
PlaceOf(c) == IF c[3] = NoKey THEN <<c[2] - 1, 0>> ELSE <<c[2], 1>>

\* the ledger after the views up to PruneFloor were connected one by one
PruneSynced ==
    [tip |-> [set |-> TRUE, id |-> PruneID(PruneFloor), height |-> PruneFloor],
     heightIdx |-> [h \in 0..PruneFloor |-> PruneID(h)],
     branch |-> [id \in {PruneID(h) : h \in 0..PruneFloor} |-> "MAIN"],
     cnIdx |-> [c \in {ID(PruneCn(p)) : p \in PrunePlaces(0, PruneFloor)} |-> PlaceOf(c)],
     pkIdx |-> PubKeyKeys(PrunePlaces(0, PruneFloor)),
     imb |-> [pk \in {k \in Keys : PruneHeld(k, PruneFloor) # 0} |-> PruneHeld(pk, PruneFloor)]]

\* LedgerDisk.pruneIndices: the deletes it adds to the batch
pruneIndices(d, vs, height) ==
    LET view == vs[GetViewIDForHeight(d, height)]
        by == SelectSeq([i \in 1..Len(view.cns) |-> i], LAMBDA i : ~IsViewpoint(view.cns[i]))
    IN  [i \in 1..Len(view.cns) |-> BDel("cnIdx", ID(view.cns[i]))]
        \o [j \in 1..Len(by) |-> BDel("pkIdx", <<view.cns[by[j]].by, height, by[j] - 1>>)]
        \o [i \in 1..Len(view.cns) |-> BDel("pkIdx", <<view.cns[i].for, height, i - 1>>)]

\* LedgerDisk.restoreIndices: the puts it adds to the batch
restoreIndices(d, vs, height) ==
    LET view == vs[GetViewIDForHeight(d, height)]
        by == SelectSeq([i \in 1..Len(view.cns) |-> i], LAMBDA i : ~IsViewpoint(view.cns[i]))
    IN  [i \in 1..Len(view.cns) |-> BPut("cnIdx", ID(view.cns[i]), <<height, i - 1>>)]
        \o [j \in 1..Len(by) |-> BPut("pkIdx", <<view.cns[by[j]].by, height, by[j] - 1>>, 1)]
        \o [i \in 1..Len(view.cns) |-> BPut("pkIdx", <<view.cns[i].for, height, i - 1>>, 1)]

\* the height whose indices are pruned or restored with the view of a height
Historic(d, height) == height - 2 * VIEWS_UNTIL_NEW_SERIES

\* pruning and restoring from one view earlier
WithPrune_early(d, vs, view, r, prune, ops) ==
    IF r.err # "" \/ ~prune \/ view.height < 2 * VIEWS_UNTIL_NEW_SERIES - 1 THEN r
    ELSE IF ~HasViewAtHeight(d, Historic(d, view.height))
        THEN [err |-> "missing view ID", batch |-> r.batch]
    ELSE [err |-> "", batch |-> r.batch \o ops]

\* the end of ConnectView and of DisconnectView in a ledger made with prune
WithPrune(d, vs, view, r, prune, ops) ==
    IF r.err # "" \/ ~prune \/ view.height < 2 * VIEWS_UNTIL_NEW_SERIES THEN r
    ELSE IF ~HasViewAtHeight(d, Historic(d, view.height))
        THEN [err |-> "missing view ID", batch |-> r.batch]
    ELSE [err |-> "", batch |-> r.batch \o ops]

PruneInit ==
    /\ whens = EmptyTable /\ graph = EmptyGraph
    /\ cnQueue = <<>> /\ qCache = EmptyTable /\ tipChan = <<>>
    /\ idxEvent = NoEvent /\ subscribed = FALSE /\ now = 0 /\ nNew = 0 /\ sent = <<>>
    /\ pc = "ledger" /\ req = NoReq /\ result = NoResult /\ step = "sync"
    /\ views = [id \in {PruneID(h) : h \in 0..MaxPruneTip} |-> PruneView(id[2])]
    /\ db = PruneSynced
    /\ snap = PruneSynced

\* ConnectView of the next view of the chain, in the ledger that prunes (db) and
\* in one that does not (snap)
PruneConnect ==
    /\ pc = "ledger"
    /\ db.tip.height < MaxPruneTip
    /\ LET h == db.tip.height + 1
           view == views[PruneID(h)]
           pruned == WithPrune(db, views, view, ConnectView(db, views, graph, PruneID(h), view),
                               TRUE, pruneIndices(db, views, Historic(db, h)))
           whole == WithPrune(snap, views, view,
                              ConnectView(snap, views, graph, PruneID(h), view),
                              FALSE, <<>>)
       IN  /\ db' = Commit(db, pruned)
           /\ snap' = Commit(snap, whole)
    /\ step' = "connect"
    /\ UNCHANGED <<views, whens, graph, cnQueue, qCache, pc, req, result, tipChan, idxEvent,
                   subscribed, now, nNew, sent>>

\* DisconnectView of the tip, in both ledgers
PruneDisconnect ==
    /\ pc = "ledger"
    /\ db.tip.height > PruneFloor
    /\ nNew < MaxDisconnects
    /\ nNew' = nNew + 1
    /\ LET h == db.tip.height
           view == views[PruneID(h)]
           pruned == WithPrune(db, views, view, DisconnectView(db, views, PruneID(h), view),
                               TRUE, restoreIndices(db, views, Historic(db, h)))
           whole == WithPrune(snap, views, view, DisconnectView(snap, views, PruneID(h), view),
                              FALSE, <<>>)
       IN  /\ db' = Commit(db, pruned)
           /\ snap' = Commit(snap, whole)
    /\ step' = "disconnect"
    /\ UNCHANGED <<views, whens, graph, cnQueue, qCache, pc, req, result, tipChan, idxEvent,
                   subscribed, now, sent>>

PruneNext == PruneConnect \/ PruneDisconnect
PruneSpec == PruneInit /\ [][PruneNext]_vars

\* the places of the last 2 * VIEWS_UNTIL_NEW_SERIES views of the main branch
LastPlaces ==
    PrunePlaces(IF db.tip.height < 2 * VIEWS_UNTIL_NEW_SERIES THEN 0
                ELSE db.tip.height - 2 * VIEWS_UNTIL_NEW_SERIES + 1, db.tip.height)

\* C29: with pruning, after any connects and disconnects the consideration index
\* and the public key consideration index exist for exactly the MAIN views at
\* heights above the height of the tip less 2016, and every public key holds
\* what it holds in a ledger that does not prune, after the same sequence.
C29_LastViewsIndexed ==
    /\ MainSet(db) = {PruneID(h) : h \in 0..db.tip.height}
    /\ DOMAIN db.cnIdx = {ID(PruneCn(p)) : p \in LastPlaces}
    /\ \A p \in LastPlaces : db.cnIdx[ID(PruneCn(p))] = p
    /\ db.pkIdx = PubKeyKeys(LastPlaces)
    /\ \A pk \in Keys : GetPublicKeyImbalance(db, pk) = GetPublicKeyImbalance(snap, pk)
    /\ db.tip = snap.tip

\* the view above the one with the transfer from B to A was disconnected: the
\* indices of that one are back, those of the view below it stay pruned
C29_Witness ==
    /\ step = "disconnect"
    /\ db.tip.height = 2 * VIEWS_UNTIL_NEW_SERIES + VIEWPOINT_MATURITY
    /\ <<"B", VIEWPOINT_MATURITY + 1, 1>> \in db.pkIdx
    /\ <<"A", VIEWPOINT_MATURITY, 1>> \notin db.pkIdx
    /\ <<"A", VIEWPOINT_MATURITY, 1>> \in snap.pkIdx

----------------------------------------------------------------------------
(* The tip against the other accepted views *)

\* ViewHeader.Compare of a stored view against the tip, with the times of storage
BetterThanTip(id) ==
    Compare(id, views[id].pointWork, whens[id],
            db.tip.id, views[db.tip.id].pointWork, whens[db.tip.id])

\* C31: after every completed ProcessView request no view marked MAIN or SIDE is
\* better than the tip under Compare with the stored headers and times of
\* storage, also after a failed reorganisation was rolled back by reconnectTip.
C31_TipIsBest ==
    pc = "idle" /\ result.op = "view" =>
        /\ HasTip(db)
        /\ \A id \in Accepted \ {db.tip.id} : ~BetterThanTip(id)

----------------------------------------------------------------------------
(* Considerations submitted again, in a ledger that prunes *)

MaxReplayRun == 4       \* views connected on top of the synced chain
MaxReplayBack == 2      \* views disconnected in a run

\* the synced chain ends three views below the end of the third series; its
\* considerations of series 2 are in the first views of that series
ReplayFloor == 3 * VIEWS_UNTIL_NEW_SERIES - 3
ReplayID(h) == <<3, h>>
ReplayBody(h) ==
    IF h \in {VIEWS_UNTIL_NEW_SERIES, VIEWS_UNTIL_NEW_SERIES + 1}
    THEN <<SeriesCn("A", "B", h, 2)>>
    ELSE <<>>
ReplayView(h) ==
    [previous |-> IF h = 0 THEN ZeroID ELSE ReplayID(h - 1), height |-> h, time |-> h,
     pointWork |-> SetBigInt(h + 1), cns |-> <<Viewpoint("A", h + 1, h)>> \o ReplayBody(h)]

ReplayPlaces(low, high) ==
    {p \in (low..high) \X (0..1) : p[2] < Len(ReplayView(p[1]).cns)}
ReplayCn(p) == ReplayView(p[1]).cns[p[2] + 1]
ReplayHeld(pk) ==
      Cardinality({p \in ReplayPlaces(0, ReplayFloor - VIEWPOINT_MATURITY) :
                      p[2] = 0 /\ ReplayCn(p).for = pk})
    + Cardinality({p \in ReplayPlaces(0, ReplayFloor) : p[2] > 0 /\ ReplayCn(p).for = pk})
    - Cardinality({p \in ReplayPlaces(0, ReplayFloor) : p[2] > 0 /\ ReplayCn(p).by = pk})

\* the ledger with prune after the chain was connected view by view: the indices
\* of the last 2 * VIEWS_UNTIL_NEW_SERIES views are there
ReplayKept == ReplayPlaces(ReplayFloor - 2 * VIEWS_UNTIL_NEW_SERIES + 1, ReplayFloor)
ReplaySynced ==
    [tip |-> [set |-> TRUE, id |-> ReplayID(ReplayFloor), height |-> ReplayFloor],
     heightIdx |-> [h \in 0..ReplayFloor |-> ReplayID(h)],
     branch |-> [id \in {ReplayID(h) : h \in 0..ReplayFloor} |-> "MAIN"],
     cnIdx |-> [c \in {ID(ReplayCn(p)) : p \in ReplayKept} |-> PlaceOf(c)],
     pkIdx |-> {<<ReplayCn(p).for, p[1], p[2]>> : p \in ReplayKept}
                  \cup {<<ReplayCn(p).by, p[1], p[2]>> :
                           p \in {x \in ReplayKept : ~IsViewpoint(ReplayCn(x))}},
     imb |-> [pk \in {k \in Keys : ReplayHeld(k) # 0} |-> ReplayHeld(pk)]]

ReplayInit ==
    /\ whens = EmptyTable /\ graph = EmptyGraph
    /\ cnQueue = <<>> /\ qCache = EmptyTable /\ tipChan = <<>> /\ snap = NoSnap
    /\ idxEvent = NoEvent /\ subscribed = FALSE /\ now = 0 /\ nNew = 0 /\ sent = <<>>
    /\ pc = "ledger" /\ req = NoReq /\ step = NoStep
    /\ result = [op |-> "sync", err |-> "", kind |-> 0]
    /\ views = [id \in {ReplayID(h) : h \in 0..ReplayFloor} |-> ReplayView(id[2])]
    /\ db = ReplaySynced

\* what a renderer puts after the viewpoint of a view of height h: a new
\* consideration, one of the two of series 2 again, or the new one of the
\* height before again
ReplayKinds == 1..4
ReplayOffer(kind, h) ==
    CASE kind = 1 -> <<SeriesCn("A", "B", h, (h \div VIEWS_UNTIL_NEW_SERIES) + 1)>>
      [] kind = 2 -> ReplayBody(VIEWS_UNTIL_NEW_SERIES)
      [] kind = 3 -> ReplayBody(VIEWS_UNTIL_NEW_SERIES + 1)
      [] kind = 4 -> <<SeriesCn("A", "B", h - 1, ((h - 1) \div VIEWS_UNTIL_NEW_SERIES) + 1)>>

\* acceptView of a view on the tip and ConnectView with prune.  A view that is
\* refused stays in the view store in the code; handing it in again is the same
\* request again, and the model does not keep it.
ReplayConnect ==
    /\ pc = "ledger"
    /\ db.tip.height < ReplayFloor + MaxReplayRun
    /\ \E kind \in ReplayKinds :
          LET h == db.tip.height + 1
              id == <<4 + kind, h>>
              view == [previous |-> db.tip.id, height |-> h, time |-> h,
                       pointWork |-> computePointWork(views[db.tip.id].pointWork),
                       cns |-> <<Viewpoint("A", h + 1, h)>> \o ReplayOffer(kind, h)]
              cv == checkView(view, h)
              av == acceptViewChecks(views, cnQueue, view)
              vs2 == Put(views, id, view)
              r == WithPrune(db, vs2, view, ConnectView(db, vs2, graph, id, view),
                             TRUE, pruneIndices(db, vs2, Historic(db, h)))
              err == IF cv # "" THEN cv ELSE IF av.err # "" THEN av.err ELSE r.err
          IN  /\ result' = [op |-> "connect", err |-> err, kind |-> kind]
              /\ views' = IF err = "" THEN vs2 ELSE views
              /\ db' = IF err = "" THEN Commit(db, r) ELSE db
    /\ UNCHANGED <<whens, graph, cnQueue, qCache, pc, req, snap, tipChan, idxEvent,
                   subscribed, now, nNew, step, sent>>

\* DisconnectView of the tip with prune
ReplayDisconnect ==
    /\ pc = "ledger"
    /\ db.tip.height > ReplayFloor
    /\ nNew < MaxReplayBack
    /\ nNew' = nNew + 1
    /\ LET h == db.tip.height
           view == views[db.tip.id]
           r == WithPrune(db, views, view, DisconnectView(db, views, db.tip.id, view),
                          TRUE, restoreIndices(db, views, Historic(db, h)))
       IN  /\ db' = Commit(db, r)
           /\ result' = [op |-> "disconnect", err |-> r.err, kind |-> 0]
    /\ UNCHANGED <<views, whens, graph, cnQueue, qCache, pc, req, snap, tipChan, idxEvent,
                   subscribed, now, step, sent>>

ReplayNext == ReplayConnect \/ ReplayDisconnect
ReplaySpec == ReplayInit /\ [][ReplayNext]_vars

\* the places of the considerations of the views marked MAIN
ConfirmedPlaces ==
    UNION {{<<id, i>> : i \in 1..Len(views[id].cns)} : id \in MainSet(db)}

----------------------------------------------------------------------------
(* A Renderer beside the Processor. Renderer.run registers two channels of
   capacity 1 and then, in its select, takes a TipChange, takes a NewTx, sees
   its shutdown channel closed or, when none of these is ready, hashes its
   candidate view and hands a solution to Processor.ProcessView. Here tipChan is
   the Renderer's tipChangeChan, subscribed says that it is registered, and
   idxEvent is the Renderer goroutine: where it is, its candidate view, its
   newTxChan, whether that channel is registered and whether the shutdown
   channel was closed. The peers only call the Processor. *)

NewTxChanCap == 1
MAX_CONSIDERATIONS_TO_INCLUDE_PER_VIEW == INITIAL_MAX_CONSIDERATIONS_PER_VIEW
MaxRenderViews == 2    \* views handed to ProcessView, by the peers and the Renderer

\* "var view *View" of Renderer.run: nil, or the tip it builds on and the
\* considerations after the viewpoint
NoCandidate == [set |-> FALSE, previous |-> ZeroID, body |-> <<>>]

\* ConsiderationQueueMemory.Get
Get(q, limit) == IF limit = 0 \/ Len(q) < limit THEN q ELSE SubSeq(q, 1, limit)

\* createNextView: the viewpoint and what Get returns, on top of the tip
createNextView(tipID, q) ==
    [set |-> TRUE, previous |-> tipID,
     body |-> Get(q, MAX_CONSIDERATIONS_TO_INCLUDE_PER_VIEW - 1)]

\* len(view.Considerations)
CandidateLen(v) == 1 + Len(v.body)

\* View.AddConsideration
AddConsideration(v, cn) == [v EXCEPT !.body = Append(@, cn)]

RenderInit ==
    /\ db = BaseDb
    /\ views = BaseViews
    /\ whens = [id \in DOMAIN BaseViews |-> 0]
    /\ graph = BaseGraph
    /\ cnQueue = <<>>
    /\ qCache = EmptyTable
    /\ pc = "idle"
    /\ req = NoReq
    /\ result = NoResult
    /\ snap = NoSnap
    /\ tipChan = <<>>
    /\ idxEvent = [at |-> "select", view |-> NoCandidate, newTxChan |-> <<>>,
                   newTxReg |-> TRUE, closed |-> FALSE]
    /\ subscribed = TRUE
    /\ now = 0
    /\ nNew = 0
    /\ step = NoStep
    /\ sent = <<>>

\* Processor.run is in its select and the result of the last request was taken
InSelect == pc = "idle" /\ idxEvent.at # "call"

\* a peer calls ProcessView; the peers are shut down before the Renderers
PeerView ==
    /\ InSelect
    /\ ~idxEvent.closed
    /\ nNew < MaxRenderViews
    /\ \E parentID \in Parents, body \in ViewBodies :
          LET id == NewID(nNew + 1)
              view == MakeView(id, parentID, body)
          IN  /\ snap' = Snapshot(db, Better(id, view, now))
              /\ processView(id, view, GenesisID, now)
    /\ sent' = <<>>
    /\ UNCHANGED <<graph, cnQueue, qCache, tipChan, idxEvent, subscribed, now, step>>

\* a peer calls ProcessConsideration: processConsideration up to the send on
\* the registered NewTx channels
PeerConsideration ==
    /\ InSelect
    /\ ~idxEvent.closed
    /\ \E cn \in CnPool :
          LET o == processConsideration(cnQueue, qCache, db, graph, cn)
          IN  /\ cnQueue' = o.q
              /\ qCache' = o.cache
              /\ IF o.newTx /\ idxEvent.newTxReg
                 THEN /\ pc' = "newTx"
                      /\ req' = [NoReq EXCEPT !.pending = cn]
                 ELSE UNCHANGED <<pc, req>>
    /\ UNCHANGED <<db, views, whens, graph, result, snap, tipChan, idxEvent, subscribed,
                   now, nNew, step, sent>>

\* "ch <- NewTx{...}" once the channel has room, and the result to the caller
SendNewTx ==
    /\ pc = "newTx"
    /\ Len(idxEvent.newTxChan) < NewTxChanCap
    /\ idxEvent' = [idxEvent EXCEPT !.newTxChan = Append(@, req.pending)]
    /\ pc' = "idle"
    /\ req' = NoReq
    /\ UNCHANGED <<db, views, whens, graph, cnQueue, qCache, result, snap, tipChan,
                   subscribed, now, nNew, step, sent>>

\* "case tip := <-tipChangeChan"
RendererTipChange ==
    /\ idxEvent.at = "select"
    /\ tipChan # <<>>
    /\ LET tip == Head(tipChan)
       IN  idxEvent' = IF ~tip.connect \/ tip.more THEN idxEvent
                       ELSE [idxEvent EXCEPT !.view = createNextView(tip.id, cnQueue)]
    /\ tipChan' = Tail(tipChan)
    /\ UNCHANGED <<db, views, whens, graph, cnQueue, qCache, pc, req, result, snap,
                   subscribed, now, nNew, step, sent>>

\* "case newTx := <-newTxChan"
RendererNewTx ==
    /\ idxEvent.at = "select"
    /\ idxEvent.newTxChan # <<>>
    /\ LET cn == Head(idxEvent.newTxChan)
           v == idxEvent.view
       IN  idxEvent' = [idxEvent EXCEPT
               !.newTxChan = Tail(@),
               !.view = IF ~v.set THEN v
                        ELSE IF /\ MAX_CONSIDERATIONS_TO_INCLUDE_PER_VIEW # 0
                                /\ CandidateLen(v) >= MAX_CONSIDERATIONS_TO_INCLUDE_PER_VIEW
                        THEN v
                        ELSE AddConsideration(v, cn)]
    /\ UNCHANGED <<db, views, whens, graph, cnQueue, qCache, pc, req, result, snap,
                   tipChan, subscribed, now, nNew, step, sent>>

\* "default:" up to the hash attempt; a candidate is created when there is none
RendererDefault ==
    /\ idxEvent.at = "select"
    /\ tipChan = <<>>
    /\ idxEvent.newTxChan = <<>>
    /\ ~idxEvent.closed
    /\ HasTip(db)
    /\ idxEvent' = [idxEvent EXCEPT
           !.at = "hash",
           !.view = IF @.set THEN @ ELSE createNextView(db.tip.id, cnQueue)]
    /\ UNCHANGED <<db, views, whens, graph, cnQueue, qCache, pc, req, result, snap,
                   tipChan, subscribed, now, nNew, step, sent>>

\* "no solution yet"
RendererMiss ==
    /\ idxEvent.at = "hash"
    /\ idxEvent' = [idxEvent EXCEPT !.at = "select"]
    /\ UNCHANGED <<db, views, whens, graph, cnQueue, qCache, pc, req, result, snap,
                   tipChan, subscribed, now, nNew, step, sent>>

\* "found a solution": ProcessView puts the view in viewChan and waits
RendererSend ==
    /\ idxEvent.at = "hash"
    /\ nNew < MaxRenderViews
    /\ idxEvent' = [idxEvent EXCEPT !.at = "sent"]
    /\ UNCHANGED <<db, views, whens, graph, cnQueue, qCache, pc, req, result, snap,
                   tipChan, subscribed, now, nNew, step, sent>>

\* "case viewToProcess := <-p.viewChan" with the Renderer's view
RenderedView ==
    /\ InSelect
    /\ idxEvent.at = "sent"
    /\ LET id == NewID(nNew + 1)
           view == MakeView(id, idxEvent.view.previous, idxEvent.view.body)
       IN  /\ snap' = Snapshot(db, Better(id, view, now))
           /\ processView(id, view, GenesisID, now)
    /\ idxEvent' = [idxEvent EXCEPT !.at = "call"]
    /\ sent' = <<>>
    /\ UNCHANGED <<graph, cnQueue, qCache, tipChan, subscribed, now, step>>

\* "return <-resultChan", then "view = nil"
RendererReturn ==
    /\ idxEvent.at = "call"
    /\ pc = "idle"
    /\ idxEvent' = [idxEvent EXCEPT !.at = "select", !.view = NoCandidate]
    /\ UNCHANGED <<db, views, whens, graph, cnQueue, qCache, pc, req, result, snap,
                   tipChan, subscribed, now, nNew, step, sent>>

\* Renderer.Shutdown: close(m.shutdownChan); no call of a peer is under way
CloseRenderer ==
    /\ ~idxEvent.closed
    /\ pc = "idle" \/ idxEvent.at = "call"
    /\ idxEvent' = [idxEvent EXCEPT !.closed = TRUE]
    /\ UNCHANGED <<db, views, whens, graph, cnQueue, qCache, pc, req, result, snap,
                   tipChan, subscribed, now, nNew, step, sent>>

\* "case _, ok := <-m.shutdownChan": run returns into its deferred calls
RendererShutdown ==
    /\ idxEvent.at = "select"
    /\ idxEvent.closed
    /\ idxEvent' = [idxEvent EXCEPT !.at = "unregisterNewTx"]
    /\ UNCHANGED <<db, views, whens, graph, cnQueue, qCache, pc, req, result, snap,
                   tipChan, subscribed, now, nNew, step, sent>>

\* UnregisterForNewConsiderations: the Processor takes the channel in its select
UnregisterNewTx ==
    /\ idxEvent.at = "unregisterNewTx"
    /\ InSelect
    /\ idxEvent' = [idxEvent EXCEPT !.at = "unregisterTipChange", !.newTxReg = FALSE]
    /\ UNCHANGED <<db, views, whens, graph, cnQueue, qCache, pc, req, result, snap,
                   tipChan, subscribed, now, nNew, step, sent>>

\* UnregisterForTipChange, after which Renderer.Shutdown returns
UnregisterTipChange ==
    /\ idxEvent.at = "unregisterTipChange"
    /\ InSelect
    /\ idxEvent' = [idxEvent EXCEPT !.at = "returned"]
    /\ subscribed' = FALSE
    /\ UNCHANGED <<db, views, whens, graph, cnQueue, qCache, pc, req, result, snap,
                   tipChan, now, nNew, step, sent>>

\* Processor.Shutdown once the Renderer is down: run sees shutdownChan closed
ProcessorShutdown ==
    /\ idxEvent.at = "returned"
    /\ pc = "idle"
    /\ pc' = "stopped"
    /\ UNCHANGED <<db, views, whens, graph, cnQueue, qCache, req, result, snap, tipChan,
                   idxEvent, subscribed, now, nNew, step, sent>>

RenderNext ==
    \/ PeerView
    \/ PeerConsideration
    \/ SendNewTx
    \/ ReorgStep
    \/ SendTipChange
    \/ RendererTipChange
    \/ RendererNewTx
    \/ RendererDefault
    \/ RendererMiss
    \/ RendererSend
    \/ RenderedView
    \/ RendererReturn
    \/ CloseRenderer
    \/ RendererShutdown
    \/ UnregisterNewTx
    \/ UnregisterTipChange
    \/ ProcessorShutdown

RenderSpec == RenderInit /\ [][RenderNext]_vars

\* the Processor cannot go on: the channel it sends into is full
SendBlocked ==
    \/ pc = "send" /\ Len(tipChan) >= TipChanCap
    \/ pc = "newTx" /\ Len(idxEvent.newTxChan) >= NewTxChanCap

\* the Renderer is inside ProcessView, its result not yet sent
AwaitsResult == idxEvent.at = "sent" \/ (idxEvent.at = "call" /\ pc # "idle")

\* C33: while the Renderer, registered for NewTx and TipChange, waits in
\* ProcessView for the result, the Processor is never blocked sending a
\* notification into one of the Renderer's one-slot channels.
C33_CallerNotBlocked == ~(AwaitsResult /\ SendBlocked)

----------------------------------------------------------------------------
(* The queue against the imbalances of the ledger *)

\* q[i], q[i + 1], ... applied in order to the imbalances imb: every agent has
\* the unit it gives when its turn comes
RECURSIVE Covered(_, _, _)
Covered(q, i, imb) ==
    IF i > Len(q) THEN TRUE
    ELSE /\ imb[q[i].by] >= 1
         /\ Covered(q, i + 1, [[imb EXCEPT ![q[i].by] = @ - 1] EXCEPT ![q[i].for] = @ + 1])

\* C34: after every completed request of the Processor, the considerations of
\* the queue applied in queue order to the imbalances of the ledger never take
\* an agent below zero, whatever Add (accepted or rejected), AddBatch and
\* RemoveBatch calls came before.
C34_QueueCovered == pc = "idle" => Covered(cnQueue, 1, LedgerImbalances(db))

\* C35: after every completed ProcessConsideration or ProcessView request no
\* consideration of the queue has an entry in the consideration index of the
\* ledger.
C35_QueuedNotConfirmed ==
    pc = "idle" => \A i \in 1..Len(cnQueue) : ID(cnQueue[i]) \notin DOMAIN db.cnIdx

\* a view request is complete whose view confirmed a consideration of the pool,
\* and another consideration is waiting in the queue
C35_Witness ==
    /\ pc = "idle"
    /\ result.op = "view" /\ result.err = ""
    /\ db.tip.id = result.id
    /\ cnQueue # <<>>
    /\ \E cn \in CnPool : /\ ID(cn) \in DOMAIN db.cnIdx
                          /\ cn \in Range(Tail(views[db.tip.id].cns))

----------------------------------------------------------------------------
(* What the graph answers once a view was indexed and taken back *)

NodeNames(g) == {g.index[i] : i \in 1..Len(g.index)}

\* C36: when a view was indexed as connected and then as disconnected,
\* IsParentDescendant answers for every pair of two keys what it answered
\* before the connect.
C36_DisconnectForgets ==
    step = "disconnect" =>
        \A p \in NodeNames(graph), d \in NodeNames(graph) :
            p # d => IsParentDescendant(graph, p, d) = IsParentDescendant(snap, p, d)

----------------------------------------------------------------------------
(* The Renderer's candidate view *)

\* C37: however the NewTx and TipChange notifications interleave with the
\* creation of the candidate from Queue.Get, the Renderer's candidate view
\* never holds the same consideration id twice and never more than
\* MAX_CONSIDERATIONS_TO_INCLUDE_PER_VIEW considerations.
C37_CandidateIsSound ==
    idxEvent.view.set =>
        /\ NoIDTwice(idxEvent.view.body)
        /\ CandidateLen(idxEvent.view) <= MAX_CONSIDERATIONS_TO_INCLUDE_PER_VIEW

----------------------------------------------------------------------------
(* The Indexer's start beside a running Processor: Indexer.run walks the main
   point upwards from the genesis view, one GetViewIDForHeight per height, until
   a height has no view, and only then registers its channel. While it walks,
   idxEvent holds the height it is about to read; the model starts with the
   walk at the tip of the synced point *)

MaxWalkViews == 2     \* views handed to ProcessView while the Indexer starts

Walker(at, height) ==
    [set |-> FALSE, id |-> ZeroID, connect |-> FALSE, more |-> FALSE,
     at |-> at, height |-> height]

WalkInit ==
    /\ db = BaseDb
    /\ views = BaseViews
    /\ whens = [id \in DOMAIN BaseViews |-> 0]
    /\ graph = IndexRange(EmptyGraph, BaseDb, BaseViews, 0, VIEWPOINT_MATURITY - 2)
    /\ cnQueue = <<>>
    /\ qCache = EmptyTable
    /\ pc = "idle"
    /\ req = NoReq
    /\ result = NoResult
    /\ snap = NoSnap
    /\ tipChan = <<>>
    /\ idxEvent = Walker("walk", VIEWPOINT_MATURITY - 1)
    /\ subscribed = FALSE
    /\ now = 0
    /\ nNew = 0
    /\ step = NoStep
    /\ sent = <<>>

\* one round of the loop "nextID, err := idx.ledger.GetViewIDForHeight(height)"
WalkStep ==
    /\ ~subscribed
    /\ idxEvent.at = "walk"
    /\ IF HasViewAtHeight(db, idxEvent.height)
       THEN /\ graph' = indexConsiderations(
                           graph, views[GetViewIDForHeight(db, idxEvent.height)], TRUE, 1)
            /\ idxEvent' = Walker("walk", idxEvent.height + 1)
       ELSE /\ graph' = graph
            /\ idxEvent' = Walker("register", idxEvent.height - 1)
    /\ UNCHANGED <<db, views, whens, cnQueue, qCache, pc, req, result, snap, tipChan,
                   subscribed, now, nNew, step, sent>>

\* idx.processor.RegisterForTipChange(tipChangeChan): taken by the Processor's select
WalkRegister ==
    /\ ~subscribed
    /\ idxEvent.at = "register"
    /\ pc = "idle"
    /\ subscribed' = TRUE
    /\ idxEvent' = NoEvent
    /\ UNCHANGED <<db, views, whens, graph, cnQueue, qCache, pc, req, result, snap,
                   tipChan, now, nNew, step, sent>>

\* ProcessView from a peer or a Renderer while the Indexer starts and after
WalkView ==
    /\ pc = "idle"
    /\ nNew < MaxWalkViews
    /\ \E parentID \in Parents, body \in ViewBodies :
          LET id == NewID(nNew + 1)
              view == MakeView(id, parentID, body)
          IN  /\ snap' = Snapshot(db, Better(id, view, now))
              /\ processView(id, view, GenesisID, now)
    /\ sent' = <<>>
    /\ UNCHANGED <<graph, cnQueue, qCache, tipChan, idxEvent, subscribed, now, step>>

WalkNext ==
    \/ WalkStep
    \/ WalkRegister
    \/ WalkView
    \/ ReorgStep
    \/ SendTipChange
    \/ IndexerRecv
    \/ IndexerIndex

WalkSpec == WalkInit /\ [][WalkNext]_vars

\* the Indexer is registered and has nothing left to index
Settled == subscribed /\ pc = "idle" /\ tipChan = <<>> /\ ~idxEvent.set

\* the graph of the views of the main point, each indexed once
MainGraph == IndexRange(EmptyGraph, db, views, 0, WalkTop(db))

\* C38: once the Indexer has finished its walk, registered and indexed every
\* pending TipChange, the views applied to the graph are exactly the views of
\* the main point, each once: every edge has the weight these views give it.
C38_GraphIsMainPoint ==
    Settled =>
        \A e \in DOMAIN graph.edges \cup DOMAIN MainGraph.edges :
            Weight(graph, e[1], e[2]) = Weight(MainGraph, e[1], e[2])

----------------------------------------------------------------------------
(* Taking the tip back *)

\* LedgerDisk.DisconnectView called for the view at the tip
DisconnectTip == DisconnectView(db, views, db.tip.id, views[db.tip.id])

\* C39: in every state the ledger can reach, DisconnectView of the view at the
\* tip does not end in the panic of ImbalanceCache.Undo ("recipient imbalance
\* went negative").
C39_DisconnectNeverPanics == HasTip(db) => DisconnectTip.err # "panic"

\* the view at the tip holds a transfer and the one back after its viewpoint,
\* and can be disconnected
C39_Witness ==
    /\ HasTip(db)
    /\ db.tip.height >= VIEWPOINT_MATURITY
    /\ Len(views[db.tip.id].cns) >= 3
    /\ DisconnectTip.err = ""

----------------------------------------------------------------------------
(* Shutdown in the order of the client: the peers are gone, Renderer.Shutdown
   closes the Renderer's channel and waits for run to return through its
   deferred unregister calls, then Processor.Shutdown waits for Processor.run *)

\* a step of the Processor or of the Renderer goroutine
Scheduled ==
    \/ ReorgStep
    \/ SendTipChange
    \/ SendNewTx
    \/ RenderedView
    \/ RendererReturn
    \/ RendererTipChange
    \/ RendererNewTx
    \/ RendererMiss
    \/ RendererShutdown
    \/ UnregisterNewTx
    \/ UnregisterTipChange
    \/ ProcessorShutdown

\* Processor.run has returned, or the process has ended in a panic
ProcessorGone == pc \in {"stopped", "crashed"}

\* C40: from any reachable state, the shutdown in the client's order (Renderer,
\* then Processor) comes to its end and every Shutdown call returns: once
\* Renderer.Shutdown has closed the Renderer's channel, one of the two
\* goroutines can take a step until Processor.run has returned.
C40_ShutdownGoesOn == idxEvent.closed => (ProcessorGone \/ ENABLED Scheduled)
====
